---- MODULE Spec2Model ----
(***************************************************************************)
(* Model of the text-to-thread pipeline of X-Thread-Generator:             *)
(* utils/charCounter, utils/langDetect, utils/dedupe (src/unnamed/part_003),*)
(* services/hashtagGenerator.js, services/localTemplates.js and the        *)
(* Gemini service with its retry / fallback logic (src/unnamed/part_001).  *)
(*                                                                         *)
(* A JavaScript string is modelled as the sequence of its UTF-16 code      *)
(* units.  A code unit is written as a TLA+ string: an ASCII character as  *)
(* itself ("a", " ", "#"), any other code unit as "U+XXXX".  `length`,     *)
(* `substring`, `lastIndexOf`, `split` and `includes` work on code units,  *)
(* the grapheme splitter joins a surrogate pair into one cluster.  A       *)
(* nullable string (tweet.cta) is <<>> for null and <<s>> for the string s.*)
(***************************************************************************)
EXTENDS Integers, Sequences, FiniteSets, TLC

\* ------------------------------------------------------------------------
\* Code units and the character classes of the regular expressions
\* ------------------------------------------------------------------------
SP == " "
NL == "U+000A"
HI == "U+D83D"
LO == "U+DC4B"
DOT == "."

\* \s of the regular expressions and of String.prototype.trim (U+00A0 occurs
\* in the prefixes of localTemplates.js)
IsSpace(c) == c \in {SP, NL, "U+00A0"}

\* the class of sentence terminators as the bytes of the source files spell
\* it: '.', '!', '?', U+00D8 and U+0178
IsTerminator(c) == c \in {".", "!", "?", "U+00D8", "U+0178"}

AsciiUpper ==
  <<"A", "B", "C", "D", "E", "F", "G", "H", "I", "J", "K", "L", "M",
    "N", "O", "P", "Q", "R", "S", "T", "U", "V", "W", "X", "Y", "Z">>
AsciiLower ==
  <<"a", "b", "c", "d", "e", "f", "g", "h", "i", "j", "k", "l", "m",
    "n", "o", "p", "q", "r", "s", "t", "u", "v", "w", "x", "y", "z">>
AsciiDigits == {"0", "1", "2", "3", "4", "5", "6", "7", "8", "9"}
AsciiLetters == {AsciiUpper[i] : i \in 1..26} \cup {AsciiLower[i] : i \in 1..26}

\* the code units of the Arabic ranges of the regular expressions that occur
\* in the model (the letters of the Arabic hashtags of HASHTAG_DICTIONARY)
ArabicUnits ==
  { "U+0621", "U+0622", "U+0623", "U+0625", "U+0626", "U+0627", "U+0628",
    "U+0629", "U+062A", "U+062B", "U+062C", "U+062D", "U+062E", "U+062F",
    "U+0630", "U+0631", "U+0633", "U+0635", "U+0637", "U+0639", "U+063A",
    "U+0641", "U+0642", "U+0643", "U+0644", "U+0645", "U+0646", "U+0647",
    "U+0648", "U+0649", "U+064A" }

\* the code units of the classes \p{P} and \p{S} that occur in the model
PunctuationOrSymbolUnits ==
  { "!", "#", "&", "'", "(", ")", ".", "/", ":", ";", "<", ">", "?", "_",
    "U+0022", "U+0060", "U+00A1", "U+00A2",
    "U+00A3", "U+00A4", "U+00A5", "U+00A6", "U+00A7", "U+00A8", "U+00A9",
    "U+00AB", "U+00AC", "U+00AE", "U+00AF", "U+00B0", "U+00B1", "U+00B4",
    "U+00B7", "U+00B8", "U+00BB", "U+2013", "U+2018", "U+2019", "U+201A",
    "U+201C", "U+201D", "U+201E", "U+2020", "U+2021", "U+2026", "U+2030",
    "U+203A", "U+20AC", "U+2122" }

\* the non-ASCII upper-case letters that occur in the model, with their
\* lower-case forms
UpperLatin == <<"U+00D8", "U+00D9", "U+0152", "U+0160", "U+0178">>
LowerLatin == <<"U+00F8", "U+00F9", "U+0153", "U+0161", "U+00FF">>

\* String.prototype.toLowerCase, one code unit
ToLowerUnit(c) ==
  IF \E i \in 1..26 : AsciiUpper[i] = c
  THEN AsciiLower[CHOOSE i \in 1..26 : AsciiUpper[i] = c]
  ELSE IF \E i \in 1..5 : UpperLatin[i] = c
       THEN LowerLatin[CHOOSE i \in 1..5 : UpperLatin[i] = c]
       ELSE c

ToLowerCase(s) == [i \in 1..Len(s) |-> ToLowerUnit(s[i])]

\* \w of the regular expressions
IsWordChar(c) == c \in AsciiLetters \cup AsciiDigits \cup {"_"}

\* [a-zA-Z0-9_\u0600-\u06FF\u0750-\u077F\u08A0-\u08FF\uFE70-\uFEFF]
IsHashtagChar(c) == IsWordChar(c) \/ c \in ArabicUnits

Min2(a, b) == IF a < b THEN a ELSE b
Max2(a, b) == IF a > b THEN a ELSE b

\* the string made of n copies of the code unit c
Repeat(c, n) == [i \in 1..n |-> c]

\* Math.ceil(a / b) for a >= 0, b > 0
CeilDiv(a, b) == (a + b - 1) \div b

\* the least and the greatest element of a non-empty set of integers
SetMin(S) == CHOOSE x \in S : \A y \in S : x <= y
SetMax(S) == CHOOSE x \in S : \A y \in S : y <= x

RECURSIVE Join(_, _)
\* Array.prototype.join
Join(parts, sep) ==
  IF Len(parts) = 0 THEN <<>>
  ELSE IF Len(parts) = 1 THEN parts[1]
  ELSE parts[1] \o sep \o Join(Tail(parts), sep)

\* the first index >= i that holds no whitespace (Len(s) + 1 when there is none)
SkipSpaces(s, i) ==
  LET rest == {j \in i..Len(s) : ~IsSpace(s[j])}
  IN  IF rest = {} THEN Max2(Len(s) + 1, i) ELSE SetMin(rest)

\* the last index <= i that holds no whitespace (0 when there is none)
SkipSpacesBack(s, i) ==
  LET rest == {j \in 1..i : ~IsSpace(s[j])}
  IN  IF rest = {} THEN 0 ELSE SetMax(rest)

\* String.prototype.trim
Trim(s) == SubSeq(s, SkipSpaces(s, 1), SkipSpacesBack(s, Len(s)))

\* String.prototype.substring(a, b), 0-based, end exclusive
Substring(s, a, b) == SubSeq(s, Max2(a, 0) + 1, Min2(b, Len(s)))

\* whether sub occurs in s at the 1-based position i
MatchesAt(s, sub, i) ==
  /\ i >= 1
  /\ i + Len(sub) - 1 <= Len(s)
  /\ \A k \in 1..Len(sub) : s[i + k - 1] = sub[k]

\* String.prototype.includes
Includes(s, sub) == \E i \in 1..(Len(s) - Len(sub) + 1) : MatchesAt(s, sub, i)

\* String.prototype.lastIndexOf(' ', from): the largest 0-based index <= from
\* that holds a space, or -1
LastIndexOfSpace(s, from) ==
  LET hits == {i \in 0..Min2(from, Len(s) - 1) : s[i + 1] = SP}
  IN  IF hits = {} THEN -1 ELSE SetMax(hits)

\* the index after the whitespace run that starts at i (i itself when s[i] is
\* no whitespace)
RunEnd(s, i) == SkipSpaces(s, i)

\* the first index of the whitespace run that holds i
RunStart(s, i) == SkipSpacesBack(s, i) + 1

\* the length of the match of the separator pattern at the 1-based position i,
\* 0 when the pattern does not match there:
\*   "words"       /\s+/
\*   "sentences"   /[.!?\u00D8\u0178]\s+/
\*   "paragraphs"  /\n\s*\n/
MatchLen(s, kind, i) ==
  CASE kind = "words" ->
         IF IsSpace(s[i]) THEN RunEnd(s, i) - i ELSE 0
    [] kind = "sentences" ->
         IF IsTerminator(s[i]) /\ i < Len(s) /\ IsSpace(s[i + 1])
         THEN RunEnd(s, i + 1) - i ELSE 0
    [] kind = "paragraphs" ->
         IF s[i] = NL
         THEN LET later == {j \in (i + 1)..(RunEnd(s, i + 1) - 1) : s[j] = NL}
              IN  IF later = {} THEN 0 ELSE SetMax(later) - i + 1
         ELSE 0

\* the positions at which a left-to-right scan finds a separator: a position
\* inside an earlier match starts no match of its own
MatchStarts(s, kind) ==
  CASE kind = "words" ->
         {i \in 1..Len(s) : IsSpace(s[i]) /\ (i = 1 \/ ~IsSpace(s[i - 1]))}
    [] kind = "sentences" ->
         {i \in 1..Len(s) : MatchLen(s, kind, i) > 0}
    [] kind = "paragraphs" ->
         {i \in 1..Len(s) :
            /\ MatchLen(s, kind, i) > 0
            /\ \A j \in RunStart(s, i)..(i - 1) : s[j] # NL}

RECURSIVE SplitFrom(_, _, _, _)
SplitFrom(s, kind, starts, start) ==
  LET rest == {i \in starts : i >= start}
  IN  IF rest = {} THEN <<SubSeq(s, start, Len(s))>>
      ELSE LET i == SetMin(rest)
               next == i + MatchLen(s, kind, i)
           IN  <<SubSeq(s, start, i - 1)>> \o SplitFrom(s, kind, starts, next)

\* String.prototype.split with one of the three separator patterns
Split(s, kind) == SplitFrom(s, kind, MatchStarts(s, kind), 1)

\* Array.prototype.filter(p => p.trim().length > 0)
FilterNonBlank(parts) == SelectSeq(parts, LAMBDA p : Len(Trim(p)) > 0)

\* ------------------------------------------------------------------------
\* utils/charCounter
\* ------------------------------------------------------------------------

\* a code unit starts a grapheme cluster unless it is the low half of a
\* surrogate pair
StartsGrapheme(s, i) == i = 1 \/ ~(s[i] = LO /\ s[i - 1] = HI)

\* splitter.splitGraphemes(s).length
GraphemeCount(s) == Cardinality({i \in 1..Len(s) : StartsGrapheme(s, i)})

\* the number of code units of the first k grapheme clusters of s
\* (0 <= k <= GraphemeCount(s))
GraphemePrefixEnd(s, k) ==
  LET lows == {i \in 1..Len(s) : ~StartsGrapheme(s, i)}
  IN  CHOOSE e \in k..Min2(Len(s), k + Cardinality(lows)) :
        /\ e - Cardinality({p \in lows : p <= e}) = k
        /\ (e + 1) \notin lows

\* splitter.splitGraphemes(s).slice(0, k).join(''); a negative k counts from
\* the end, as Array.prototype.slice does
GraphemeSlice(s, k) ==
  LET n == GraphemeCount(s)
      take == IF k >= 0 THEN Min2(k, n) ELSE Max2(n + k, 0)
  IN  SubSeq(s, 1, GraphemePrefixEnd(s, take))

Ellipsis == <<DOT, DOT, DOT>>

getCharCount(text, hashtags, cta) ==
  IF Len(text) = 0 THEN 0
  ELSE LET hashtagText == Join(hashtags, <<SP>>)
           withTags == IF Len(hashtags) > 0 /\ ~Includes(text, hashtagText)
                       THEN text \o <<SP>> \o hashtagText ELSE text
           fullText == IF Len(cta) > 0 /\ Len(cta[1]) > 0 /\ ~Includes(withTags, cta[1])
                       THEN withTags \o <<SP>> \o cta[1] ELSE withTags
       IN  GraphemeCount(fullText)

RECURSIVE Accumulate(_, _, _, _)
\* the for-loops of truncateSmart: append pieces while the text still fits
Accumulate(pieces, sep, availableSpace, truncated) ==
  IF Len(pieces) = 0 THEN truncated
  ELSE LET testText == IF Len(truncated) > 0
                       THEN truncated \o sep \o pieces[1] ELSE pieces[1]
       IN  IF getCharCount(testText, <<>>, <<>>) <= availableSpace
           THEN Accumulate(Tail(pieces), sep, availableSpace, testText)
           ELSE truncated

truncateSmart(text, maxLength, hashtags, cta) ==
  LET hashtagSpace == IF Len(hashtags) > 0 THEN Len(Join(hashtags, <<SP>>)) + 1 ELSE 0
      ctaSpace == IF Len(cta) > 0 /\ Len(cta[1]) > 0 THEN Len(cta[1]) + 1 ELSE 0
      availableSpace == maxLength - hashtagSpace - ctaSpace
      byWords == Accumulate(Split(text, "words"), <<SP>>, availableSpace, <<>>)
      bySentences == Accumulate(Split(text, "sentences"), <<DOT, SP>>, availableSpace, <<>>)
  IN  IF Len(text) = 0 THEN <<>>
      ELSE IF availableSpace <= 0 THEN <<>>
      ELSE IF getCharCount(text, <<>>, <<>>) <= availableSpace THEN text
      ELSE IF 2 * Len(byWords) > availableSpace THEN byWords
      ELSE IF Len(bySentences) = 0 \/ 10 * Len(bySentences) < 3 * availableSpace
           THEN GraphemeSlice(text, availableSpace - 3) \o Ellipsis
      ELSE bySentences

TWEET_CHAR_LIMIT == 280

validateTweetLength(text, hashtags, cta) ==
  LET charCount == getCharCount(text, hashtags, cta)
  IN  [isValid |-> charCount <= TWEET_CHAR_LIMIT,
       charCount |-> charCount,
       maxLength |-> TWEET_CHAR_LIMIT,
       remaining |-> TWEET_CHAR_LIMIT - charCount,
       overBy |-> IF charCount > TWEET_CHAR_LIMIT THEN charCount - TWEET_CHAR_LIMIT ELSE 0]

\* ------------------------------------------------------------------------
\* utils/langDetect
\* ------------------------------------------------------------------------

\* a variant of IsStripped that leaves the digits in the text
IsStrippedButDigits(c) ==
  \/ IsSpace(c)
  \/ c \in PunctuationOrSymbolUnits
  \/ c \in {HI, LO}

\* the code units that text.replace(/[\s\d\p{P}\p{S}]/gu, '') removes; an
\* emoji outside the BMP is a symbol, so both halves of its pair go
IsStripped(c) ==
  \/ IsSpace(c)
  \/ c \in AsciiDigits
  \/ c \in PunctuationOrSymbolUnits
  \/ c \in {HI, LO}

\* Math.round(((count / totalLetters) * 100) * 100): the percentage rounded to
\* two decimals, in hundredths (the doubles give this value for every
\* totalLetters below 160)
RoundedPercent(count, totalLetters) ==
  (20000 * count + totalLetters) \div (2 * totalLetters)

\* the fields arabic, english and other hold the rounded percentages in
\* hundredths. The comparisons of the unrounded percentages are made on the
\* exact counts: a percentage p = 100 * n / t exceeds a threshold k iff
\* 100 * n > k * t
detectLanguagePercentages(text) ==
  LET letters == {i \in 1..Len(text) : ~IsStripped(text[i])}
      totalLetters == Cardinality(letters)
      arabicCount == Cardinality({i \in letters : text[i] \in ArabicUnits})
      englishCount == Cardinality({i \in letters : text[i] \in AsciiLetters})
      otherCount == totalLetters - arabicCount - englishCount
  IN  IF totalLetters = 0
      THEN [arabic |-> 0, english |-> 0, other |-> 0,
            total_chars |-> 0,
            dominant_language |-> "unknown", direction |-> "ltr", is_mixed |-> FALSE]
      ELSE [arabic |-> RoundedPercent(arabicCount, totalLetters),
            english |-> RoundedPercent(englishCount, totalLetters),
            other |-> RoundedPercent(otherCount, totalLetters),
            total_chars |-> totalLetters,
            raw_counts |-> [arabic |-> arabicCount, english |-> englishCount,
                            other |-> otherCount],
            dominant_language |->
              IF arabicCount > englishCount /\ arabicCount > otherCount THEN "arabic"
              ELSE IF englishCount > arabicCount /\ englishCount > otherCount THEN "english"
              ELSE IF otherCount > arabicCount /\ otherCount > englishCount THEN "other"
              ELSE "unknown",
            direction |-> IF 100 * arabicCount > 30 * totalLetters THEN "rtl" ELSE "ltr",
            is_mixed |-> /\ 100 * arabicCount > 10 * totalLetters
                         /\ 100 * englishCount > 10 * totalLetters]

\* analysis.arabic > threshold, on the percentage rounded to two decimals:
\* Math.round(p * 100) / 100 > k iff Math.round(p * 100) > 100 * k
ArabicPercentAbove(analysis, k) ==
  /\ analysis.total_chars > 0
  /\ (20000 * analysis.raw_counts.arabic + analysis.total_chars)
        \div (2 * analysis.total_chars) > 100 * k

detectTextDirection(text) ==
  LET analysis == detectLanguagePercentages(text)
  IN  IF analysis.is_mixed THEN "mixed" ELSE analysis.direction

getLanguageCode(text) ==
  LET analysis == detectLanguagePercentages(text)
  IN  IF analysis.is_mixed THEN "mixed"
      ELSE IF analysis.dominant_language = "arabic" THEN "ar"
      ELSE IF analysis.dominant_language = "english" THEN "en"
      ELSE "unknown"

\* ------------------------------------------------------------------------
\* utils/dedupe
\* ------------------------------------------------------------------------

RECURSIVE Unique(_)
\* [...new Set(xs)]: the first occurrence of every element, in order
Unique(xs) ==
  IF Len(xs) = 0 THEN <<>>
  ELSE LET front == Unique(SubSeq(xs, 1, Len(xs) - 1))
           last == xs[Len(xs)]
       IN  IF \E i \in 1..Len(front) : front[i] = last THEN front ELSE Append(front, last)

\* whether x is an element of the array xs
Contains(xs, x) == \E i \in 1..Len(xs) : xs[i] = x

\* tag.replace(/^#+/, '')
StripLeadingHashes(tag) ==
  LET rest == {i \in 1..Len(tag) : tag[i] # "#"}
  IN  IF rest = {} THEN <<>> ELSE SubSeq(tag, SetMin(rest), Len(tag))

dedupeHashtags(hashtags) ==
  LET kept == SelectSeq(hashtags, LAMBDA tag : Len(Trim(tag)) > 0)
      clean == [i \in 1..Len(kept) |-> ToLowerCase(Trim(StripLeadingHashes(kept[i])))]
      normalized == [i \in 1..Len(clean) |-> <<"#">> \o clean[i]]
  IN  Unique(SelectSeq(normalized, LAMBDA tag : Len(tag) > 1))

dedupeEmojis(emojis) ==
  LET valid == SelectSeq(emojis, LAMBDA emoji : Len(Trim(emoji)) > 0)
  IN  Unique([i \in 1..Len(valid) |-> Trim(valid[i])])

\* the hashtags of one tweet of balanceHashtagsAcrossThread: index is the
\* 0-based position of the tweet
BalancedHashtags(uniqueHashtags, index, maxPerTweet) ==
  LET startIndex == (index * maxPerTweet) % Len(uniqueHashtags)
      picked == [i \in 1..maxPerTweet |->
                   uniqueHashtags[((startIndex + i - 1) % Len(uniqueHashtags)) + 1]]
  IN  Unique(picked)

RECURSIVE FlattenSeq(_)
FlattenSeq(xss) ==
  IF Len(xss) = 0 THEN <<>> ELSE xss[1] \o FlattenSeq(Tail(xss))

balanceHashtagsAcrossThread(tweets, maxPerTweet) ==
  LET allHashtags == FlattenSeq([i \in 1..Len(tweets) |-> tweets[i].hashtags])
      uniqueHashtags == dedupeHashtags(allHashtags)
  IN  IF Len(tweets) = 0 THEN tweets
      ELSE IF Len(uniqueHashtags) = 0
      THEN [i \in 1..Len(tweets) |-> [tweets[i] EXCEPT !.hashtags = <<>>]]
      ELSE [i \in 1..Len(tweets) |->
              [tweets[i] EXCEPT
                 !.hashtags = BalancedHashtags(uniqueHashtags, i - 1, maxPerTweet)]]

\* the end of the run of hashtag characters that starts at i
HashtagEnd(s, i) ==
  LET stops == {j \in i..Len(s) : ~IsHashtagChar(s[j])}
  IN  IF stops = {} THEN Len(s) ELSE SetMin(stops) - 1

RECURSIVE MatchesFrom(_, _, _)
\* the matches that start at the positions `starts`, in order
MatchesFrom(s, starts, from) ==
  LET rest == {i \in starts : i >= from}
  IN  IF rest = {} THEN <<>>
      ELSE LET i == SetMin(rest)
           IN  <<SubSeq(s, i, HashtagEnd(s, i + 1))>> \o MatchesFrom(s, starts, i + 1)

extractHashtagsFromText(text) ==
  LET starts == {i \in 1..(Len(text) - 1) : text[i] = "#" /\ IsHashtagChar(text[i + 1])}
  IN  dedupeHashtags(MatchesFrom(text, starts, 1))

RECURSIVE EmojisFrom(_, _, _)
EmojisFrom(s, starts, from) ==
  LET rest == {i \in starts : i >= from}
  IN  IF rest = {} THEN <<>>
      ELSE LET i == SetMin(rest)
           IN  <<SubSeq(s, i, i + 1)>> \o EmojisFrom(s, starts, i + 2)

\* the matches of the emoji pattern: of the code units of the model only the
\* surrogate pair HI LO is a code point of its ranges
extractEmojisFromText(text) ==
  LET starts == {i \in 1..(Len(text) - 1) : text[i] = HI /\ text[i + 1] = LO}
  IN  dedupeEmojis(EmojisFrom(text, starts, 1))

dedupeHashtagsAndEmojis(tweets) ==
  LET processedTweets ==
        [i \in 1..Len(tweets) |->
           [tweets[i] EXCEPT
              !.hashtags = dedupeHashtags(tweets[i].hashtags
                                          \o extractHashtagsFromText(tweets[i].text)),
              !.emoji_suggestions =
                 dedupeEmojis(tweets[i].emoji_suggestions
                              \o extractEmojisFromText(tweets[i].text))]]
  IN  balanceHashtagsAcrossThread(processedTweets, 3)

\* ------------------------------------------------------------------------
\* services/hashtagGenerator.js
\* ------------------------------------------------------------------------

HASHTAG_DICTIONARY ==
  [ ai |->
      [english |->
         << <<"#", "A", "I">>,
           <<"#", "M", "a", "c", "h", "i", "n", "e", "L", "e", "a", "r", "n", "i", "n", "g">>,
           <<"#", "D", "e", "e", "p", "L", "e", "a", "r", "n", "i", "n", "g">>,
           <<"#", "N", "e", "u", "r", "a", "l", "N", "e", "t", "w", "o", "r", "k", "s">>,
           <<"#", "A", "r", "t", "i", "f", "i", "c", "i", "a", "l", "I", "n", "t", "e", "l", "l", "i", "g", "e", "n", "c", "e">>,
           <<"#", "M", "L", "O", "p", "s">>,
           <<"#", "D", "a", "t", "a", "S", "c", "i", "e", "n", "c", "e">>,
           <<"#", "T", "e", "c", "h", "T", "r", "e", "n", "d", "s">> >>,
       arabic |->
         << <<"#", "U+0630", "U+0643", "U+0627", "U+0621", "_", "U+0627", "U+0635", "U+0637", "U+0646", "U+0627", "U+0639", "U+064A">>,
           <<"#", "U+062A", "U+0639", "U+0644", "U+0645", "_", "U+0622", "U+0644", "U+064A">>,
           <<"#", "U+062A", "U+0642", "U+0646", "U+064A", "U+0629">>,
           <<"#", "U+0627", "U+0628", "U+062A", "U+0643", "U+0627", "U+0631">> >>],
    programming |->
      [english |->
         << <<"#", "P", "r", "o", "g", "r", "a", "m", "m", "i", "n", "g">>,
           <<"#", "C", "o", "d", "i", "n", "g">>,
           <<"#", "W", "e", "b", "D", "e", "v">>,
           <<"#", "J", "a", "v", "a", "S", "c", "r", "i", "p", "t">>,
           <<"#", "P", "y", "t", "h", "o", "n">>,
           <<"#", "R", "e", "a", "c", "t">>,
           <<"#", "N", "o", "d", "e", "J", "S">>,
           <<"#", "F", "u", "l", "l", "S", "t", "a", "c", "k">> >>,
       arabic |->
         << <<"#", "U+0628", "U+0631", "U+0645", "U+062C", "U+0629">>,
           <<"#", "U+062A", "U+0637", "U+0648", "U+064A", "U+0631">>,
           <<"#", "U+0645", "U+0637", "U+0648", "U+0631">>,
           <<"#", "U+0643", "U+0648", "U+062F">> >>],
    writing |->
      [english |->
         << <<"#", "W", "r", "i", "t", "i", "n", "g">>,
           <<"#", "C", "o", "n", "t", "e", "n", "t", "C", "r", "e", "a", "t", "i", "o", "n">>,
           <<"#", "S", "t", "o", "r", "y", "t", "e", "l", "l", "i", "n", "g">>,
           <<"#", "C", "o", "p", "y", "w", "r", "i", "t", "i", "n", "g">>,
           <<"#", "B", "l", "o", "g", "W", "r", "i", "t", "i", "n", "g">>,
           <<"#", "C", "r", "e", "a", "t", "i", "v", "e", "W", "r", "i", "t", "i", "n", "g">>,
           <<"#", "W", "r", "i", "t", "i", "n", "g", "T", "i", "p", "s">> >>,
       arabic |->
         << <<"#", "U+0643", "U+062A", "U+0627", "U+0628", "U+0629">>,
           <<"#", "U+0645", "U+062D", "U+062A", "U+0648", "U+0649">>,
           <<"#", "U+0642", "U+0635", "U+0635">>,
           <<"#", "U+0625", "U+0628", "U+062F", "U+0627", "U+0639">> >>],
    education |->
      [english |->
         << <<"#", "E", "d", "u", "c", "a", "t", "i", "o", "n">>,
           <<"#", "L", "e", "a", "r", "n", "i", "n", "g">>,
           <<"#", "O", "n", "l", "i", "n", "e", "L", "e", "a", "r", "n", "i", "n", "g">>,
           <<"#", "S", "k", "i", "l", "l", "s">>,
           <<"#", "K", "n", "o", "w", "l", "e", "d", "g", "e">>,
           <<"#", "S", "t", "u", "d", "y", "T", "i", "p", "s">>,
           <<"#", "P", "e", "r", "s", "o", "n", "a", "l", "G", "r", "o", "w", "t", "h">> >>,
       arabic |->
         << <<"#", "U+062A", "U+0639", "U+0644", "U+064A", "U+0645">>,
           <<"#", "U+062A", "U+0639", "U+0644", "U+0645">>,
           <<"#", "U+0645", "U+0647", "U+0627", "U+0631", "U+0627", "U+062A">>,
           <<"#", "U+0645", "U+0639", "U+0631", "U+0641", "U+0629">> >>],
    business |->
      [english |->
         << <<"#", "B", "u", "s", "i", "n", "e", "s", "s">>,
           <<"#", "E", "n", "t", "r", "e", "p", "r", "e", "n", "e", "u", "r", "s", "h", "i", "p">>,
           <<"#", "S", "t", "a", "r", "t", "u", "p">>,
           <<"#", "L", "e", "a", "d", "e", "r", "s", "h", "i", "p">>,
           <<"#", "M", "a", "r", "k", "e", "t", "i", "n", "g">>,
           <<"#", "S", "t", "r", "a", "t", "e", "g", "y">>,
           <<"#", "I", "n", "n", "o", "v", "a", "t", "i", "o", "n">> >>,
       arabic |->
         << <<"#", "U+0623", "U+0639", "U+0645", "U+0627", "U+0644">>,
           <<"#", "U+0631", "U+064A", "U+0627", "U+062F", "U+0629">>,
           <<"#", "U+0642", "U+064A", "U+0627", "U+062F", "U+0629">>,
           <<"#", "U+062A", "U+0633", "U+0648", "U+064A", "U+0642">> >>],
    productivity |->
      [english |->
         << <<"#", "P", "r", "o", "d", "u", "c", "t", "i", "v", "i", "t", "y">>,
           <<"#", "T", "i", "m", "e", "M", "a", "n", "a", "g", "e", "m", "e", "n", "t">>,
           <<"#", "E", "f", "f", "i", "c", "i", "e", "n", "c", "y">>,
           <<"#", "W", "o", "r", "k", "L", "i", "f", "e">>,
           <<"#", "S", "e", "l", "f", "I", "m", "p", "r", "o", "v", "e", "m", "e", "n", "t">>,
           <<"#", "M", "i", "n", "d", "s", "e", "t">>,
           <<"#", "G", "o", "a", "l", "s">> >>,
       arabic |->
         << <<"#", "U+0625", "U+0646", "U+062A", "U+0627", "U+062C", "U+064A", "U+0629">>,
           <<"#", "U+062A", "U+0637", "U+0648", "U+064A", "U+0631", "_", "U+0627", "U+0644", "U+0630", "U+0627", "U+062A">>,
           <<"#", "U+0623", "U+0647", "U+062F", "U+0627", "U+0641">>,
           <<"#", "U+0646", "U+062C", "U+0627", "U+062D">> >>],
    technology |->
      [english |->
         << <<"#", "T", "e", "c", "h", "n", "o", "l", "o", "g", "y">>,
           <<"#", "I", "n", "n", "o", "v", "a", "t", "i", "o", "n">>,
           <<"#", "D", "i", "g", "i", "t", "a", "l", "T", "r", "a", "n", "s", "f", "o", "r", "m", "a", "t", "i", "o", "n">>,
           <<"#", "T", "e", "c", "h", "N", "e", "w", "s">>,
           <<"#", "F", "u", "t", "u", "r", "e">>,
           <<"#", "A", "u", "t", "o", "m", "a", "t", "i", "o", "n">>,
           <<"#", "C", "l", "o", "u", "d", "C", "o", "m", "p", "u", "t", "i", "n", "g">> >>,
       arabic |->
         << <<"#", "U+062A", "U+0642", "U+0646", "U+064A", "U+0629">>,
           <<"#", "U+0627", "U+0628", "U+062A", "U+0643", "U+0627", "U+0631">>,
           <<"#", "U+062A", "U+062D", "U+0648", "U+0644", "_", "U+0631", "U+0642", "U+0645", "U+064A">>,
           <<"#", "U+0645", "U+0633", "U+062A", "U+0642", "U+0628", "U+0644">> >>],
    design |->
      [english |->
         << <<"#", "D", "e", "s", "i", "g", "n">>,
           <<"#", "U", "X", "D", "e", "s", "i", "g", "n">>,
           <<"#", "U", "I", "D", "e", "s", "i", "g", "n">>,
           <<"#", "C", "r", "e", "a", "t", "i", "v", "e", "D", "e", "s", "i", "g", "n">>,
           <<"#", "G", "r", "a", "p", "h", "i", "c", "D", "e", "s", "i", "g", "n">>,
           <<"#", "U", "s", "e", "r", "E", "x", "p", "e", "r", "i", "e", "n", "c", "e">>,
           <<"#", "D", "e", "s", "i", "g", "n", "T", "h", "i", "n", "k", "i", "n", "g">> >>,
       arabic |->
         << <<"#", "U+062A", "U+0635", "U+0645", "U+064A", "U+0645">>,
           <<"#", "U+0625", "U+0628", "U+062F", "U+0627", "U+0639">>,
           <<"#", "U+0641", "U+0646">>,
           <<"#", "U+062C", "U+0631", "U+0627", "U+0641", "U+064A", "U+0643">> >>],
    finance |->
      [english |->
         << <<"#", "F", "i", "n", "a", "n", "c", "e">>,
           <<"#", "I", "n", "v", "e", "s", "t", "m", "e", "n", "t">>,
           <<"#", "T", "r", "a", "d", "i", "n", "g">>,
           <<"#", "C", "r", "y", "p", "t", "o", "c", "u", "r", "r", "e", "n", "c", "y">>,
           <<"#", "F", "i", "n", "T", "e", "c", "h">>,
           <<"#", "P", "e", "r", "s", "o", "n", "a", "l", "F", "i", "n", "a", "n", "c", "e">>,
           <<"#", "W", "e", "a", "l", "t", "h", "B", "u", "i", "l", "d", "i", "n", "g">> >>,
       arabic |->
         << <<"#", "U+0645", "U+0627", "U+0644", "U+064A", "U+0629">>,
           <<"#", "U+0627", "U+0633", "U+062A", "U+062B", "U+0645", "U+0627", "U+0631">>,
           <<"#", "U+062A", "U+062F", "U+0627", "U+0648", "U+0644">>,
           <<"#", "U+062B", "U+0631", "U+0648", "U+0629">> >>],
    health |->
      [english |->
         << <<"#", "H", "e", "a", "l", "t", "h">>,
           <<"#", "W", "e", "l", "l", "n", "e", "s", "s">>,
           <<"#", "F", "i", "t", "n", "e", "s", "s">>,
           <<"#", "M", "e", "n", "t", "a", "l", "H", "e", "a", "l", "t", "h">>,
           <<"#", "N", "u", "t", "r", "i", "t", "i", "o", "n">>,
           <<"#", "H", "e", "a", "l", "t", "h", "y", "L", "i", "f", "e", "s", "t", "y", "l", "e">>,
           <<"#", "S", "e", "l", "f", "C", "a", "r", "e">> >>,
       arabic |->
         << <<"#", "U+0635", "U+062D", "U+0629">>,
           <<"#", "U+0644", "U+064A", "U+0627", "U+0642", "U+0629">>,
           <<"#", "U+0639", "U+0627", "U+0641", "U+064A", "U+0629">>,
           <<"#", "U+062A", "U+063A", "U+0630", "U+064A", "U+0629">> >>],
    social |->
      [english |->
         << <<"#", "S", "o", "c", "i", "a", "l", "M", "e", "d", "i", "a">>,
           <<"#", "D", "i", "g", "i", "t", "a", "l", "M", "a", "r", "k", "e", "t", "i", "n", "g">>,
           <<"#", "C", "o", "n", "t", "e", "n", "t", "S", "t", "r", "a", "t", "e", "g", "y">>,
           <<"#", "B", "r", "a", "n", "d", "i", "n", "g">>,
           <<"#", "I", "n", "f", "l", "u", "e", "n", "c", "e">>,
           <<"#", "O", "n", "l", "i", "n", "e", "P", "r", "e", "s", "e", "n", "c", "e">> >>,
       arabic |->
         << <<"#", "U+0648", "U+0633", "U+0627", "U+0626", "U+0644", "_", "U+0627", "U+0644", "U+062A", "U+0648", "U+0627", "U+0635", "U+0644">>,
           <<"#", "U+062A", "U+0633", "U+0648", "U+064A", "U+0642", "_", "U+0631", "U+0642", "U+0645", "U+064A">>,
           <<"#", "U+0639", "U+0644", "U+0627", "U+0645", "U+0629", "_", "U+062A", "U+062C", "U+0627", "U+0631", "U+064A", "U+0629">>,
           <<"#", "U+062A", "U+0623", "U+062B", "U+064A", "U+0631">> >>],
    general |->
      [english |->
         << <<"#", "T", "i", "p", "s">>,
           <<"#", "I", "n", "s", "i", "g", "h", "t", "s">>,
           <<"#", "T", "h", "o", "u", "g", "h", "t", "s">>,
           <<"#", "W", "i", "s", "d", "o", "m">>,
           <<"#", "E", "x", "p", "e", "r", "i", "e", "n", "c", "e">>,
           <<"#", "A", "d", "v", "i", "c", "e">>,
           <<"#", "P", "e", "r", "s", "p", "e", "c", "t", "i", "v", "e">> >>,
       arabic |->
         << <<"#", "U+0646", "U+0635", "U+0627", "U+0626", "U+062D">>,
           <<"#", "U+062E", "U+0628", "U+0631", "U+0629">>,
           <<"#", "U+062D", "U+0643", "U+0645", "U+0629">>,
           <<"#", "U+0631", "U+0623", "U+064A">> >>] ]

THREAD_HASHTAGS ==
  [english |->
     << <<"#", "T", "h", "r", "e", "a", "d">>,
       <<"#", "T", "w", "i", "t", "t", "e", "r", "T", "h", "r", "e", "a", "d">>,
       <<"#", "T", "w", "e", "e", "t", "T", "h", "r", "e", "a", "d">> >>,
   arabic |->
     << <<"#", "U+062E", "U+064A", "U+0637">>,
       <<"#", "U+062E", "U+064A", "U+0637", "_", "U+062A", "U+0648", "U+064A", "U+062A", "U+0631">> >>]

\* the topics of KEYWORD_PATTERNS, in the order of Object.entries
TopicOrder ==
  <<"ai", "programming", "writing", "education", "business", "productivity", "technology", "design", "finance", "health", "social">>

\* KEYWORD_PATTERNS: the alternatives of each pattern that are one ASCII word.
\* The alternatives of several words and the Arabic ones (which \b, an ASCII
\* word boundary, lets match only next to an ASCII word character) are spelled
\* by no text of the model.
KEYWORD_PATTERNS ==
  [ ai |->
      { <<"a", "i">>,
        <<"n", "e", "u", "r", "a", "l">>,
        <<"a", "l", "g", "o", "r", "i", "t", "h", "m">>,
        <<"a", "u", "t", "o", "m", "a", "t", "i", "o", "n">>,
        <<"c", "h", "a", "t", "g", "p", "t">>,
        <<"g", "p", "t">>,
        <<"l", "l", "m">> },
    programming |->
      { <<"p", "r", "o", "g", "r", "a", "m", "m", "i", "n", "g">>,
        <<"c", "o", "d", "i", "n", "g">>,
        <<"d", "e", "v", "e", "l", "o", "p", "e", "r">>,
        <<"j", "a", "v", "a", "s", "c", "r", "i", "p", "t">>,
        <<"p", "y", "t", "h", "o", "n">>,
        <<"r", "e", "a", "c", "t">>,
        <<"n", "o", "d", "e">>,
        <<"h", "t", "m", "l">>,
        <<"c", "s", "s">>,
        <<"a", "p", "i">>,
        <<"d", "a", "t", "a", "b", "a", "s", "e">> },
    writing |->
      { <<"w", "r", "i", "t", "i", "n", "g">>,
        <<"c", "o", "n", "t", "e", "n", "t">>,
        <<"s", "t", "o", "r", "y">>,
        <<"b", "l", "o", "g">>,
        <<"a", "r", "t", "i", "c", "l", "e">>,
        <<"c", "o", "p", "y", "w", "r", "i", "t", "i", "n", "g">>,
        <<"a", "u", "t", "h", "o", "r">>,
        <<"p", "u", "b", "l", "i", "s", "h">> },
    education |->
      { <<"e", "d", "u", "c", "a", "t", "i", "o", "n">>,
        <<"l", "e", "a", "r", "n", "i", "n", "g">>,
        <<"s", "t", "u", "d", "y">>,
        <<"c", "o", "u", "r", "s", "e">>,
        <<"t", "u", "t", "o", "r", "i", "a", "l">>,
        <<"k", "n", "o", "w", "l", "e", "d", "g", "e">>,
        <<"s", "k", "i", "l", "l">>,
        <<"t", "e", "a", "c", "h">> },
    business |->
      { <<"b", "u", "s", "i", "n", "e", "s", "s">>,
        <<"s", "t", "a", "r", "t", "u", "p">>,
        <<"e", "n", "t", "r", "e", "p", "r", "e", "n", "e", "u", "r">>,
        <<"c", "o", "m", "p", "a", "n", "y">>,
        <<"m", "a", "r", "k", "e", "t", "i", "n", "g">>,
        <<"s", "a", "l", "e", "s">>,
        <<"s", "t", "r", "a", "t", "e", "g", "y">> },
    productivity |->
      { <<"p", "r", "o", "d", "u", "c", "t", "i", "v", "i", "t", "y">>,
        <<"e", "f", "f", "i", "c", "i", "e", "n", "c", "y">>,
        <<"g", "o", "a", "l">>,
        <<"h", "a", "b", "i", "t">>,
        <<"f", "o", "c", "u", "s">>,
        <<"w", "o", "r", "k", "f", "l", "o", "w">> },
    technology |->
      { <<"t", "e", "c", "h", "n", "o", "l", "o", "g", "y">>,
        <<"t", "e", "c", "h">>,
        <<"i", "n", "n", "o", "v", "a", "t", "i", "o", "n">>,
        <<"d", "i", "g", "i", "t", "a", "l">>,
        <<"c", "l", "o", "u", "d">>,
        <<"s", "o", "f", "t", "w", "a", "r", "e">>,
        <<"h", "a", "r", "d", "w", "a", "r", "e">> },
    design |->
      { <<"d", "e", "s", "i", "g", "n">>,
        <<"u", "x">>,
        <<"u", "i">>,
        <<"c", "r", "e", "a", "t", "i", "v", "e">>,
        <<"v", "i", "s", "u", "a", "l">>,
        <<"g", "r", "a", "p", "h", "i", "c">>,
        <<"i", "n", "t", "e", "r", "f", "a", "c", "e">> },
    finance |->
      { <<"f", "i", "n", "a", "n", "c", "e">>,
        <<"i", "n", "v", "e", "s", "t", "m", "e", "n", "t">>,
        <<"t", "r", "a", "d", "i", "n", "g">>,
        <<"m", "o", "n", "e", "y">>,
        <<"c", "r", "y", "p", "t", "o">>,
        <<"b", "i", "t", "c", "o", "i", "n">>,
        <<"f", "i", "n", "a", "n", "c", "i", "a", "l">> },
    health |->
      { <<"h", "e", "a", "l", "t", "h">>,
        <<"f", "i", "t", "n", "e", "s", "s">>,
        <<"w", "e", "l", "l", "n", "e", "s", "s">>,
        <<"n", "u", "t", "r", "i", "t", "i", "o", "n">>,
        <<"e", "x", "e", "r", "c", "i", "s", "e">> },
    social |->
      { <<"m", "a", "r", "k", "e", "t", "i", "n", "g">>,
        <<"b", "r", "a", "n", "d">>,
        <<"i", "n", "f", "l", "u", "e", "n", "c", "e">>,
        <<"t", "w", "i", "t", "t", "e", "r">>,
        <<"i", "n", "s", "t", "a", "g", "r", "a", "m">> } ]

\* the maximal runs of \w characters of s
WordRuns(s) ==
  LET starts == {i \in 1..Len(s) : IsWordChar(s[i]) /\ (i = 1 \/ ~IsWordChar(s[i - 1]))}
      RunStop(i) == LET stops == {j \in i..Len(s) : ~IsWordChar(s[j])}
                    IN  IF stops = {} THEN Len(s) ELSE SetMin(stops) - 1
  IN  {SubSeq(s, i, RunStop(i)) : i \in starts}

\* /\b(k1|k2|...)\b/i.test(lowerText), for alternatives that are one word each
detectTopics(text) ==
  LET words == WordRuns(ToLowerCase(text))
      topics == SelectSeq(TopicOrder, LAMBDA topic : KEYWORD_PATTERNS[topic] \cap words # {})
  IN  IF Len(text) = 0 THEN <<"general">>
      ELSE IF Len(topics) > 0 THEN topics ELSE <<"general">>

\* a variant of Take that keeps the whole array
TakeAll(xs, n) == xs

\* Array.prototype.slice(0, n), for n >= 0
Take(xs, n) == SubSeq(xs, 1, Min2(Max2(n, 0), Len(xs)))

RECURSIVE TopicHashtags(_, _)
\* the hashtags of the topics in one language, in topic order
TopicHashtags(topics, language) ==
  IF Len(topics) = 0 THEN <<>>
  ELSE HASHTAG_DICTIONARY[topics[1]][language] \o TopicHashtags(Tail(topics), language)

RECURSIVE FillGeneral(_, _, _, _)
\* the while-loop of generateTweetHashtags that fills the remaining slots
FillGeneral(hashtags, generalHashtags, maxHashtags, usedHashtags) ==
  IF Len(hashtags) >= maxHashtags THEN hashtags
  ELSE LET available == SelectSeq(generalHashtags,
                          LAMBDA tag : ~Contains(hashtags, tag) /\ tag \notin usedHashtags)
       IN  IF Len(available) = 0 THEN hashtags
           ELSE FillGeneral(Append(hashtags, available[1]), generalHashtags,
                            maxHashtags, usedHashtags)

\* a variant of generateTweetHashtags that does not filter by the set of used
\* hashtags
generateTweetHashtagsUnfiltered(text, options, usedHashtags) ==
  LET englishCount == CeilDiv(options.maxHashtags * options.englishRatioNum,
                              options.englishRatioDen)
      hashtags == Take(Unique(TopicHashtags(detectTopics(text), "english")), englishCount)
  IN  [hashtags |-> hashtags,
       usedHashtags |-> usedHashtags \cup {hashtags[i] : i \in 1..Len(hashtags)}]

\* options.englishRatio is the fraction englishRatioNum / englishRatioDen.
\* The result is the returned array and the set usedHashtags as the call
\* leaves it.
generateTweetHashtags(text, options, usedHashtags) ==
  LET langAnalysis == detectLanguagePercentages(text)
      topics == detectTopics(text)
      isArabicContent == ArabicPercentAbove(langAnalysis, 30)
      englishCount == CeilDiv(options.maxHashtags * options.englishRatioNum,
                              options.englishRatioDen)
      arabicCount == options.maxHashtags - englishCount
      availableEnglish ==
        Take(SelectSeq(Unique(TopicHashtags(topics, "english")),
                       LAMBDA tag : tag \notin usedHashtags), englishCount)
      availableArabic ==
        IF (isArabicContent \/ options.forceArabic) /\ arabicCount > 0
        THEN Take(SelectSeq(Unique(TopicHashtags(topics, "arabic")),
                            LAMBDA tag : tag \notin usedHashtags), arabicCount)
        ELSE <<>>
      topical == availableEnglish \o availableArabic
      threadHashtag == IF isArabicContent THEN THREAD_HASHTAGS.arabic[1]
                       ELSE THREAD_HASHTAGS.english[1]
      withThread == IF options.includeThreadHashtag /\ threadHashtag \notin usedHashtags
                    THEN <<threadHashtag>> \o topical ELSE topical
      generalHashtags == IF isArabicContent THEN HASHTAG_DICTIONARY.general.arabic
                         ELSE HASHTAG_DICTIONARY.general.english
      hashtags == FillGeneral(withThread, generalHashtags, options.maxHashtags, usedHashtags)
  IN  [hashtags |-> Take(hashtags, options.maxHashtags),
       usedHashtags |-> usedHashtags \cup {hashtags[i] : i \in 1..Len(hashtags)}]

RECURSIVE ThreadHashtagsFrom(_, _, _, _)
\* the map of generateThreadHashtags from the tweet at position k on
ThreadHashtagsFrom(thread, options, k, usedHashtags) ==
  IF k > Len(thread) THEN <<>>
  ELSE LET tweetOptions ==
             [options EXCEPT !.includeThreadHashtag = (k = 1),
                             !.maxHashtags = IF k = Len(thread) THEN 4 ELSE 3]
           r == generateTweetHashtags(thread[k].text, tweetOptions, usedHashtags)
       IN  <<[thread[k] EXCEPT !.hashtags = r.hashtags]>>
             \o ThreadHashtagsFrom(thread, options, k + 1, r.usedHashtags)

generateThreadHashtags(thread, options) ==
  IF Len(thread) = 0 THEN thread
  ELSE ThreadHashtagsFrom(thread, options, 1, {})

\* the options both callers of generateThreadHashtags pass: maxHashtags 4,
\* englishRatio 0.7
ThreadHashtagOptions ==
  [maxHashtags |-> 4, englishRatioNum |-> 7, englishRatioDen |-> 10,
   includeThreadHashtag |-> FALSE, forceArabic |-> FALSE]

\* ------------------------------------------------------------------------
\* services/localTemplates
\* ------------------------------------------------------------------------
\* The string literals below are the code units the bytes of the source file
\* decode to.

\* getStylePrefixes: the prefixes of a style, for an Arabic-dominant text and
\* for any other
getStylePrefixes(style, language) ==
  LET isArabic == language = "arabic"
  IN  CASE style = "educational" ->
             IF isArabic
             THEN << <<"U+011F", "U+0178", "U+2019", "U+00A1", " ", "U+00D9", "U+2020", "U+00D8", "U+00B5", "U+00D9", "U+0160", "U+00D8", "U+00AD", "U+00D8", "U+00A9", ":">>,
                <<"U+011F", "U+0178", "U+201C", "U+0161", " ", "U+00D8", "U+00AA", "U+00D8", "U+00B9", "U+00D9", "U+201E", "U+00D9", "U+2026", ":">>,
                <<"U+00E2", "U+0153", "U+00A8", " ", "U+00D9", "U+00D9", "U+0192", "U+00D8", "U+00B1", "U+00D8", "U+00A9", ":">> >>
             ELSE << <<"U+011F", "U+0178", "U+2019", "U+00A1", " ", "T", "i", "p", ":">>,
                <<"U+011F", "U+0178", "U+201C", "U+0161", " ", "L", "e", "a", "r", "n", ":">>,
                <<"U+00E2", "U+0153", "U+00A8", " ", "I", "n", "s", "i", "g", "h", "t", ":">> >>
        [] style = "technical" ->
             IF isArabic
             THEN << <<"U+011F", "U+0178", "U+201D", "U+00A7", " ", "U+00D8", "U+00AA", "U+00D9", "U+201A", "U+00D9", "U+2020", "U+00D9", "U+0160", ":">>,
                <<"U+00E2", "U+0161", "U+2122", "U+00EF", "U+00B8", " ", "U+00D8", "U+00B7", "U+00D8", "U+00B1", "U+00D9", "U+0160", "U+00D9", "U+201A", "U+00D8", "U+00A9", ":">>,
                <<"U+011F", "U+0178", "U+203A", "U+00A0", "U+00EF", "U+00B8", " ", "U+00D8", "U+00AD", "U+00D9", "U+201E", ":">> >>
             ELSE << <<"U+011F", "U+0178", "U+201D", "U+00A7", " ", "T", "e", "c", "h", "n", "i", "c", "a", "l", ":">>,
                <<"U+00E2", "U+0161", "U+2122", "U+00EF", "U+00B8", " ", "M", "e", "t", "h", "o", "d", ":">>,
                <<"U+011F", "U+0178", "U+203A", "U+00A0", "U+00EF", "U+00B8", " ", "S", "o", "l", "u", "t", "i", "o", "n", ":">> >>
        [] style = "concise" ->
             IF isArabic
             THEN << <<"U+011F", "U+0178", "U+201C", "U+0152", " ", "U+00D8", "U+00AE", "U+00D9", "U+201E", "U+00D8", "U+00A7", "U+00D8", "U+00B5", "U+00D8", "U+00A9", ":">>,
                <<"U+00E2", "U+0161", "U+00A1", " ", "U+00D8", "U+00B3", "U+00D8", "U+00B1", "U+00D9", "U+0160", "U+00D8", "U+00B9", ":">>,
                <<"U+011F", "U+0178", "U+00AF", " ", "U+00D9", "U+2026", "U+00D8", "U+00A8", "U+00D8", "U+00A7", "U+00D8", "U+00B4", "U+00D8", "U+00B1", ":">> >>
             ELSE << <<"U+011F", "U+0178", "U+201C", "U+0152", " ", "S", "u", "m", "m", "a", "r", "y", ":">>,
                <<"U+00E2", "U+0161", "U+00A1", " ", "Q", "u", "i", "c", "k", ":">>,
                <<"U+011F", "U+0178", "U+00AF", " ", "D", "i", "r", "e", "c", "t", ":">> >>
        [] style = "engaging" ->
             IF isArabic
             THEN << <<"U+011F", "U+0178", "U+201D", "U+00A5", " ", "U+00D9", "U+2026", "U+00D9", "U+2021", "U+00D9", "U+2026", ":">>,
                <<"U+011F", "U+0178", "U+2018", "U+20AC", " ", "U+00D8", "U+00A7", "U+00D9", "U+2020", "U+00D8", "U+00AA", "U+00D8", "U+00A8", "U+00D9", "U+2021", ":">>,
                <<"U+011F", "U+0178", "U+0161", "U+20AC", " ", "U+00D8", "U+00B1", "U+00D8", "U+00A7", "U+00D8", "U+00A6", "U+00D8", "U+00B9", ":">> >>
             ELSE << <<"U+011F", "U+0178", "U+201D", "U+00A5", " ", "I", "m", "p", "o", "r", "t", "a", "n", "t", ":">>,
                <<"U+011F", "U+0178", "U+2018", "U+20AC", " ", "N", "o", "t", "i", "c", "e", ":">>,
                <<"U+011F", "U+0178", "U+0161", "U+20AC", " ", "A", "m", "a", "z", "i", "n", "g", ":">> >>
        [] style = "professional" ->
             IF isArabic
             THEN << <<"U+011F", "U+0178", "U+201C", "U+0160", " ", "U+00D8", "U+00AA", "U+00D8", "U+00AD", "U+00D9", "U+201E", "U+00D9", "U+0160", "U+00D9", "U+201E", ":">>,
                <<"U+011F", "U+0178", "U+2019", "U+00BC", " ", "U+00D8", "U+00AE", "U+00D8", "U+00A8", "U+00D8", "U+00B1", "U+00D8", "U+00A9", ":">>,
                <<"U+011F", "U+0178", "U+201C", "U+02C6", " ", "U+00D8", "U+00A7", "U+00D8", "U+00B3", "U+00D8", "U+00AA", "U+00D8", "U+00B1", "U+00D8", "U+00A7", "U+00D8", "U+00AA", "U+00D9", "U+0160", "U+00D8", "U+00AC", "U+00D9", "U+0160", "U+00D8", "U+00A9", ":">> >>
             ELSE << <<"U+011F", "U+0178", "U+201C", "U+0160", " ", "A", "n", "a", "l", "y", "s", "i", "s", ":">>,
                <<"U+011F", "U+0178", "U+2019", "U+00BC", " ", "E", "x", "p", "e", "r", "i", "e", "n", "c", "e", ":">>,
                <<"U+011F", "U+0178", "U+201C", "U+02C6", " ", "S", "t", "r", "a", "t", "e", "g", "y", ":">> >>
        [] OTHER -> <<>>

\* the candidate phrases of generateCTA (ctas[style] || ctas.educational)
StyleCTAs(style, isArabic) ==
  CASE style = "technical" ->
             IF isArabic
             THEN << <<"U+00D8", "U+00AC", "U+00D8", "U+00B1", "U+00D8", "U+00A8", " ", "U+00D9", "U+02C6", "U+00D8", "U+00A3", "U+00D8", "U+00AE", "U+00D8", "U+00A8", "U+00D8", "U+00B1", "U+00D9", "U+2020", "U+00D8", "U+00A7", " ", "U+011F", "U+0178", "U+201D", "U+00A7">>,
                <<"U+00D8", "U+00B4", "U+00D8", "U+00A7", "U+00D8", "U+00B1", "U+00D9", "U+0192", " ", "U+00D8", "U+00AA", "U+00D8", "U+00AC", "U+00D8", "U+00B1", "U+00D8", "U+00A8", "U+00D8", "U+00AA", "U+00D9", "U+0192", " ", "U+011F", "U+0178", "U+2019", "U+00BB">>,
                <<"U+00D9", "U+2021", "U+00D9", "U+201E", " ", "U+00D9", "U+02C6", "U+00D8", "U+00A7", "U+00D8", "U+00AC", "U+00D9", "U+2021", "U+00D8", "U+00AA", " ", "U+00D9", "U+2021", "U+00D8", "U+00B0", "U+00D8", "U+00A7", "U+00D8", "U+0178", " ", "U+00E2", "U+0161", "U+2122", "U+00EF", "U+00B8">> >>
             ELSE << <<"T", "r", "y", " ", "i", "t", " ", "a", "n", "d", " ", "l", "e", "t", " ", "u", "s", " ", "k", "n", "o", "w", " ", "U+011F", "U+0178", "U+201D", "U+00A7">>,
                <<"S", "h", "a", "r", "e", " ", "y", "o", "u", "r", " ", "e", "x", "p", "e", "r", "i", "e", "n", "c", "e", " ", "U+011F", "U+0178", "U+2019", "U+00BB">>,
                <<"H", "a", "v", "e", " ", "y", "o", "u", " ", "f", "a", "c", "e", "d", " ", "t", "h", "i", "s", "?", " ", "U+00E2", "U+0161", "U+2122", "U+00EF", "U+00B8">> >>
    [] style = "concise" ->
             IF isArabic
             THEN << <<"U+00D8", "U+00B1", "U+00D8", "U+00A3", "U+00D9", "U+0160", "U+00D9", "U+0192", "U+00D8", "U+0178", " ", "U+011F", "U+0178", "U+2018", "U+2021">>,
                <<"U+00D8", "U+00AA", "U+00D8", "U+00AC", "U+00D8", "U+00B1", "U+00D8", "U+00A8", "U+00D8", "U+00AA", "U+00D9", "U+0192", "U+00D8", "U+0178", " ", "U+011F", "U+0178", "U+2019", "U+00AD">>,
                <<"U+00D9", "U+2026", "U+00D9", "U+00D9", "U+0160", "U+00D8", "U+00AF", "U+00D8", "U+0178", " ", "U+00E2", "U+0153", "U+00A8">> >>
             ELSE << <<"Y", "o", "u", "r", " ", "t", "a", "k", "e", "?", " ", "U+011F", "U+0178", "U+2018", "U+2021">>,
                <<"Y", "o", "u", "r", " ", "e", "x", "p", "e", "r", "i", "e", "n", "c", "e", "?", " ", "U+011F", "U+0178", "U+2019", "U+00AD">>,
                <<"H", "e", "l", "p", "f", "u", "l", "?", " ", "U+00E2", "U+0153", "U+00A8">> >>
    [] style = "engaging" ->
             IF isArabic
             THEN << <<"U+00D8", "U+00B4", "U+00D8", "U+00A7", "U+00D8", "U+00B1", "U+00D9", "U+0192", " ", "U+00D8", "U+00A7", "U+00D9", "U+201E", "U+00D9", "U+201A", "U+00D8", "U+00B5", "U+00D8", "U+00A9", "!", " ", "U+011F", "U+0178", "U+0161", "U+20AC">>,
                <<"U+00D8", "U+00B9", "U+00D9", "U+201E", "U+00D9", "U+201A", " ", "U+00D8", "U+00A8", "U+00D8", "U+00B1", "U+00D8", "U+00A3", "U+00D9", "U+0160", "U+00D9", "U+0192", "!", " ", "U+011F", "U+0178", "U+201D", "U+00A5">>,
                <<"U+00D9", "U+02C6", "U+00D8", "U+00A3", "U+00D9", "U+2020", "U+00D8", "U+00AA", "U+00D8", "U+0178", " ", "U+011F", "U+0178", "U+2018", "U+20AC">> >>
             ELSE << <<"S", "h", "a", "r", "e", " ", "t", "h", "e", " ", "s", "t", "o", "r", "y", "!", " ", "U+011F", "U+0178", "U+0161", "U+20AC">>,
                <<"D", "r", "o", "p", " ", "y", "o", "u", "r", " ", "o", "p", "i", "n", "i", "o", "n", "!", " ", "U+011F", "U+0178", "U+201D", "U+00A5">>,
                <<"W", "h", "a", "t", " ", "a", "b", "o", "u", "t", " ", "y", "o", "u", "?", " ", "U+011F", "U+0178", "U+2018", "U+20AC">> >>
    [] style = "professional" ->
             IF isArabic
             THEN << <<"U+00D8", "U+00B4", "U+00D8", "U+00A7", "U+00D8", "U+00B1", "U+00D9", "U+0192", "U+00D9", "U+2020", "U+00D8", "U+00A7", " ", "U+00D8", "U+00AE", "U+00D8", "U+00A8", "U+00D8", "U+00B1", "U+00D8", "U+00AA", "U+00D9", "U+0192", " ", "U+011F", "U+0178", "U+2019", "U+00BC">>,
                <<"U+00D9", "U+2026", "U+00D8", "U+00A7", " ", "U+00D8", "U+00A7", "U+00D8", "U+00B3", "U+00D8", "U+00AA", "U+00D8", "U+00B1", "U+00D8", "U+00A7", "U+00D8", "U+00AA", "U+00D9", "U+0160", "U+00D8", "U+00AC", "U+00D9", "U+0160", "U+00D8", "U+00AA", "U+00D9", "U+0192", "U+00D8", "U+0178", " ", "U+011F", "U+0178", "U+201C", "U+0160">>,
                <<"U+00D8", "U+00AA", "U+00D8", "U+00AC", "U+00D8", "U+00B1", "U+00D8", "U+00A8", "U+00D8", "U+00AA", "U+00D9", "U+0192", "U+00D8", "U+0178", " ", "U+011F", "U+0178", "U+00AF">> >>
             ELSE << <<"S", "h", "a", "r", "e", " ", "y", "o", "u", "r", " ", "e", "x", "p", "e", "r", "t", "i", "s", "e", " ", "U+011F", "U+0178", "U+2019", "U+00BC">>,
                <<"W", "h", "a", "t", "'", "s", " ", "y", "o", "u", "r", " ", "s", "t", "r", "a", "t", "e", "g", "y", "?", " ", "U+011F", "U+0178", "U+201C", "U+0160">>,
                <<"Y", "o", "u", "r", " ", "e", "x", "p", "e", "r", "i", "e", "n", "c", "e", "?", " ", "U+011F", "U+0178", "U+00AF">> >>
    [] OTHER ->
             IF isArabic
             THEN << <<"U+00D8", "U+00B4", "U+00D8", "U+00A7", "U+00D8", "U+00B1", "U+00D9", "U+0192", "U+00D9", "U+2020", "U+00D8", "U+00A7", " ", "U+00D8", "U+00B1", "U+00D8", "U+00A3", "U+00D9", "U+0160", "U+00D9", "U+0192", " ", "U+011F", "U+0178", "U+2018", "U+2021">>,
                <<"U+00D9", "U+2026", "U+00D8", "U+00A7", " ", "U+00D8", "U+00B1", "U+00D8", "U+00A3", "U+00D9", "U+0160", "U+00D9", "U+0192", " ", "U+00D9", "U+00D9", "U+0160", " ", "U+00D9", "U+2021", "U+00D8", "U+00B0", "U+00D8", "U+00A7", "U+00D8", "U+0178", " ", "U+011F", "U+0178", "U+2019", "U+00AD">>,
                <<"U+00D9", "U+2021", "U+00D9", "U+201E", " ", "U+00D8", "U+00AA", "U+00D8", "U+00B7", "U+00D8", "U+00A8", "U+00D9", "U+201A", " ", "U+00D9", "U+2021", "U+00D8", "U+00B0", "U+00D8", "U+00A7", "U+00D8", "U+0178", " ", "U+011F", "U+0178", "U+00A4", "U+201D">> >>
             ELSE << <<"S", "h", "a", "r", "e", " ", "y", "o", "u", "r", " ", "t", "h", "o", "u", "g", "h", "t", "s", " ", "U+011F", "U+0178", "U+2018", "U+2021">>,
                <<"W", "h", "a", "t", " ", "d", "o", " ", "y", "o", "u", " ", "t", "h", "i", "n", "k", "?", " ", "U+011F", "U+0178", "U+2019", "U+00AD">>,
                <<"D", "o", " ", "y", "o", "u", " ", "a", "p", "p", "l", "y", " ", "t", "h", "i", "s", "?", " ", "U+011F", "U+0178", "U+00A4", "U+201D">> >>

\* styleEmojis of generateEmojis (styleEmojis[style] || [])
StyleEmojis(style) ==
  CASE style = "educational" ->
         << <<"U+011F", "U+0178", "U+201C", "U+0161">>,
         <<"U+011F", "U+0178", "U+2019", "U+00A1">>,
         <<"U+00E2", "U+0153", "U+00A8">>,
         <<"U+011F", "U+0178", "U+00AF">>,
         <<"U+011F", "U+0178", "U+201C", "U+2013">> >>
    [] style = "technical" ->
         << <<"U+011F", "U+0178", "U+201D", "U+00A7">>,
         <<"U+00E2", "U+0161", "U+2122", "U+00EF", "U+00B8">>,
         <<"U+011F", "U+0178", "U+203A", "U+00A0", "U+00EF", "U+00B8">>,
         <<"U+011F", "U+0178", "U+2019", "U+00BB">>,
         <<"U+011F", "U+0178", "U+201D", "U+00AC">> >>
    [] style = "concise" ->
         << <<"U+011F", "U+0178", "U+201C", "U+0152">>,
         <<"U+00E2", "U+0161", "U+00A1">>,
         <<"U+011F", "U+0178", "U+00AF">>,
         <<"U+00E2", "U+0153", "U+2026">>,
         <<"U+00E2", "U+00AD">> >>
    [] style = "engaging" ->
         << <<"U+011F", "U+0178", "U+201D", "U+00A5">>,
         <<"U+011F", "U+0178", "U+2018", "U+20AC">>,
         <<"U+011F", "U+0178", "U+0161", "U+20AC">>,
         <<"U+011F", "U+0178", "U+2019", "U+00AB">>,
         <<"U+011F", "U+0178", "U+2030">> >>
    [] style = "professional" ->
         << <<"U+011F", "U+0178", "U+201C", "U+0160">>,
         <<"U+011F", "U+0178", "U+2019", "U+00BC">>,
         <<"U+011F", "U+0178", "U+201C", "U+02C6">>,
         <<"U+011F", "U+0178", "U+2020">>,
         <<"U+00E2", "U+0161", "U+00A1">> >>
    [] OTHER -> <<>>

\* the keyword rules of generateEmojis: English keyword, keyword as the source
\* spells the Arabic one, emojis
ContentEmojiRules ==
  << [english |-> <<"i", "m", "p", "o", "r", "t", "a", "n", "t">>,
      arabic |-> <<"U+00D9", "U+2026", "U+00D9", "U+2021", "U+00D9", "U+2026">>,
      emojis |-> << <<"U+00E2", "U+0161", "U+00A0", "U+00EF", "U+00B8">>,
                <<"U+011F", "U+0178", "U+0161", "U+00A8">>,
                <<"U+011F", "U+0178", "U+201C", "U+00A2">> >>],
     [english |-> <<"s", "u", "c", "c", "e", "s", "s">>,
      arabic |-> <<"U+00D9", "U+2020", "U+00D8", "U+00AC", "U+00D8", "U+00AD">>,
      emojis |-> << <<"U+011F", "U+0178", "U+2030">>,
                <<"U+011F", "U+0178", "U+2020">>,
                <<"U+00E2", "U+0153", "U+2026">> >>],
     [english |-> <<"m", "o", "n", "e", "y">>,
      arabic |-> <<"U+00D9", "U+2026", "U+00D8", "U+00A7", "U+00D9", "U+201E">>,
      emojis |-> << <<"U+011F", "U+0178", "U+2019", "U+00B0">>,
                <<"U+011F", "U+0178", "U+2019", "U+00B5">>,
                <<"U+011F", "U+0178", "U+201C", "U+02C6">> >>],
     [english |-> <<"t", "i", "m", "e">>,
      arabic |-> <<"U+00D9", "U+02C6", "U+00D9", "U+201A", "U+00D8", "U+00AA">>,
      emojis |-> << <<"U+00E2", "U+00B0">>,
                <<"U+00E2", "U+0152", "U+0161">>,
                <<"U+00E2", "U+00B3">> >>] >>

\* the thread start indicators of generateEmojis
ThreadStartEmojis ==
  << <<"U+011F", "U+0178", "U+00A7", "U+00B5">>,
       <<"U+011F", "U+0178", "U+2018", "U+2021">> >>

DecimalDigits == <<"0", "1", "2", "3", "4", "5", "6", "7", "8", "9">>

RECURSIVE NumberToString(_)
\* the decimal representation of a natural number, as template literals
\* produce it
NumberToString(n) ==
  IF n < 10 THEN <<DecimalDigits[n + 1]>>
  ELSE Append(NumberToString(n \div 10), DecimalDigits[(n % 10) + 1])

RECURSIVE SumLength(_)
\* segments.reduce((sum, s) => sum + s.length, 0)
SumLength(segments) ==
  IF Len(segments) = 0 THEN 0 ELSE Len(segments[1]) + SumLength(Tail(segments))

\* Array.prototype.indexOf, 1-based (x occurs in xs)
IndexOf(xs, x) == SetMin({i \in 1..Len(xs) : xs[i] = x})

RECURSIVE CombineFrom(_, _, _, _, _, _)
\* the for-loop of combineSmallSegments from the segment at position k on.
\* current.length + segment.length + 1 < avgLength * 1.5 with
\* avgLength = total / targetCount is compared exactly.
CombineFrom(segments, targetCount, total, k, combined, current) ==
  IF k > Len(segments)
  THEN IF Len(current) > 0 THEN Append(combined, current) ELSE combined
  ELSE LET segment == segments[k]
       IN  IF Len(current) = 0
           THEN CombineFrom(segments, targetCount, total, k + 1, combined, segment)
           ELSE IF 2 * targetCount * (Len(current) + Len(segment) + 1) < 3 * total
           THEN CombineFrom(segments, targetCount, total, k + 1, combined,
                            current \o <<SP>> \o segment)
           ELSE LET pushed == Append(combined, current)
                    remaining == SubSeq(segments, IndexOf(segments, segment) + 1,
                                        Len(segments))
                    last == IF Len(remaining) > 0
                            THEN segment \o <<SP>> \o Join(remaining, <<SP>>)
                            ELSE segment
                IN  IF Len(pushed) >= targetCount - 1
                    THEN IF Len(last) > 0 THEN Append(pushed, last) ELSE pushed
                    ELSE CombineFrom(segments, targetCount, total, k + 1, pushed, segment)

combineSmallSegments(segments, targetCount) ==
  IF Len(segments) <= targetCount THEN segments
  ELSE CombineFrom(segments, targetCount, SumLength(segments), 1, <<>>, <<>>)

\* the sentence strategy of segmentText
SentenceSegments(sentences, targetCount) ==
  LET sentencesPerTweet == CeilDiv(Len(sentences), targetCount)
      groups == CeilDiv(Len(sentences), sentencesPerTweet)
      segment(g) ==
        Trim(Join(SubSeq(sentences, (g - 1) * sentencesPerTweet + 1,
                         Min2(g * sentencesPerTweet, Len(sentences))),
                  <<DOT, SP>>))
  IN  Take(SelectSeq([g \in 1..groups |-> segment(g)], LAMBDA s : Len(s) > 0),
           targetCount)

\* the split by length of segmentText (text is not empty)
LengthSegments(text, targetCount) ==
  LET avgLength == CeilDiv(Len(text), targetCount)
      chunks == CeilDiv(Len(text), avgLength)
      chunk(i) ==
        LET segment == Substring(text, i, i + avgLength)
            lastSpace == LastIndexOfSpace(segment, Len(segment) - 1)
        IN  Trim(IF i + avgLength < Len(text) /\ 2 * lastSpace > Len(segment)
                 THEN Substring(segment, 0, lastSpace)
                 ELSE segment)
  IN  SelectSeq([k \in 1..chunks |-> chunk((k - 1) * avgLength)], LAMBDA s : Len(s) > 0)

segmentText(text, targetCount) ==
  LET paragraphs == FilterNonBlank(Split(text, "paragraphs"))
      sentences == FilterNonBlank(Split(text, "sentences"))
  IN  IF Len(text) = 0 \/ targetCount < 1 THEN <<>>
      ELSE IF Len(paragraphs) >= targetCount
      THEN combineSmallSegments(Take(paragraphs, targetCount * 2), targetCount)
      ELSE IF Len(sentences) >= targetCount
      THEN SentenceSegments(sentences, targetCount)
      ELSE LengthSegments(text, targetCount)

\* prefixPick is the value of Math.floor(Math.random() * prefixes.length)
generateTweetText(segment, style, index, total, langAnalysis, prefixPick) ==
  LET trimmed == Trim(segment)
      numbered == IF total > 1
                  THEN trimmed \o <<SP, "(">> \o NumberToString(index + 1) \o <<"/">>
                         \o NumberToString(total) \o <<")">>
                  ELSE trimmed
      prefixes == getStylePrefixes(style, langAnalysis.dominant_language)
  IN  IF index = 0 /\ Len(prefixes) > 0
      THEN prefixes[prefixPick + 1] \o <<SP>> \o numbered
      ELSE numbered

RECURSIVE ContentEmojis(_, _)
\* the emojis of the keyword rules of generateEmojis from rule k on
ContentEmojis(lowerSegment, k) ==
  IF k > Len(ContentEmojiRules) THEN <<>>
  ELSE LET rule == ContentEmojiRules[k]
       IN  (IF Includes(lowerSegment, rule.english) \/ Includes(lowerSegment, rule.arabic)
            THEN rule.emojis ELSE <<>>) \o ContentEmojis(lowerSegment, k + 1)

generateEmojis(segment, style, index) ==
  LET lowerSegment == ToLowerCase(segment)
      byContent == ContentEmojis(lowerSegment, 1)
      contentEmojis == IF index = 0 THEN ThreadStartEmojis \o byContent ELSE byContent
      allEmojis == StyleEmojis(style) \o contentEmojis
  IN  Take(Unique(allEmojis), 3)

\* ctaPick is the value of Math.floor(Math.random() * styleCTAs.length)
generateCTA(style, langAnalysis, ctaPick) ==
  StyleCTAs(style, langAnalysis.dominant_language = "arabic")[ctaPick + 1]

\* A tweet is a record with the fields index, text, char_count, warnings,
\* hashtags, emoji_suggestions and cta. cta is <<>> for null and <<s>> for
\* the string s. warnings is [ref, items]: ref names the array object, which
\* copies of a tweet made with the spread syntax share, items is its content.
\* image_suggestion is left out.
NewTweet(segment, index, total, style, langAnalysis, prefixPick, ctaPick) ==
  LET tweetText == generateTweetText(segment, style, index, total, langAnalysis, prefixPick)
  IN  [index |-> index + 1,
       text |-> tweetText,
       char_count |-> getCharCount(tweetText, <<>>, <<>>),
       warnings |-> [ref |-> index + 1, items |-> <<>>],
       hashtags |-> <<>>,
       emoji_suggestions |-> generateEmojis(segment, style, index),
       cta |-> IF index = total - 1 THEN <<generateCTA(style, langAnalysis, ctaPick)>>
               ELSE <<>>]

\* segments.map(...) of generateFallbackThread
DraftTweets(segments, style, langAnalysis, prefixPick, ctaPick) ==
  [k \in 1..Len(segments) |->
     NewTweet(segments[k], k - 1, Len(segments), style, langAnalysis, prefixPick, ctaPick)]

\* a variant of Reindex that leaves the index fields as they are
ReindexSkipped(tweets) == tweets

\* tweets.map((tweet, index) => ({ ...tweet, index: index + 1 }))
Reindex(tweets) == [k \in 1..Len(tweets) |-> [tweets[k] EXCEPT !.index = k]]

\* the length below which ensureExactTweetCount does not split a tweet
MinSplitLength == 100

\* the position of the longest tweet as the reduce of ensureExactTweetCount
\* finds it: the first one of the greatest length
LongestIndex(result) ==
  SetMin({i \in 1..Len(result) :
            \A j \in 1..Len(result) : Len(result[j].text) <= Len(result[i].text)})

\* a variant of SplitPoint that looks for the space in the first quarter only
SplitPointInFirstQuarter(text) == LastIndexOfSpace(text, Len(text) \div 4)

\* the 0-based index at which ensureExactTweetCount splits a text
SplitPoint(text) == LastIndexOfSpace(text, Len(text) \div 2)

RECURSIVE SplitLongest(_, _)
\* the while-loop of ensureExactTweetCount. The outcome is [threw, value]:
\* reading result[0].text of an empty array throws a TypeError.
SplitLongest(result, targetCount) ==
  IF Len(result) >= targetCount THEN [threw |-> FALSE, value |-> result]
  ELSE IF Len(result) = 0 THEN [threw |-> TRUE, value |-> result]
  ELSE LET longestIndex == LongestIndex(result)
           longestTweet == result[longestIndex]
           splitPoint == SplitPoint(longestTweet.text)
           firstPart == Trim(Substring(longestTweet.text, 0, splitPoint))
           secondPart == Trim(Substring(longestTweet.text, splitPoint,
                                        Len(longestTweet.text)))
       IN  IF Len(longestTweet.text) < MinSplitLength
           THEN [threw |-> FALSE, value |-> result]
           ELSE IF splitPoint > 0
           THEN SplitLongest(
                  SubSeq(result, 1, longestIndex - 1)
                    \o << [longestTweet EXCEPT !.text = firstPart],
                          [longestTweet EXCEPT !.text = secondPart,
                                               !.hashtags = <<>>,
                                               !.emoji_suggestions = <<>>] >>
                    \o SubSeq(result, longestIndex + 1, Len(result)),
                  targetCount)
           ELSE [threw |-> FALSE, value |-> result]

\* a variant of ensureExactTweetCount whose loop does not run on an empty
\* array, so that it returns the empty array instead of throwing
ensureExactTweetCountOrNone(tweets, targetCount) ==
  IF Len(tweets) = 0 THEN [threw |-> FALSE, value |-> tweets]
  ELSE IF Len(tweets) = targetCount THEN [threw |-> FALSE, value |-> tweets]
  ELSE IF Len(tweets) > targetCount
  THEN LET toRemove == Len(tweets) - targetCount
           startRemove == (Len(tweets) - toRemove) \div 2
       IN  [threw |-> FALSE,
            value |-> Reindex(SubSeq(tweets, 1, startRemove)
                              \o SubSeq(tweets, startRemove + toRemove + 1, Len(tweets)))]
  ELSE [threw |-> FALSE,
        value |-> Reindex(Take(SplitLongest(tweets, targetCount).value, targetCount))]

ensureExactTweetCount(tweets, targetCount) ==
  IF Len(tweets) = targetCount THEN [threw |-> FALSE, value |-> tweets]
  ELSE IF Len(tweets) > targetCount
  THEN LET toRemove == Len(tweets) - targetCount
           startRemove == (Len(tweets) - toRemove) \div 2
       IN  [threw |-> FALSE,
            value |-> Reindex(SubSeq(tweets, 1, startRemove)
                              \o SubSeq(tweets, startRemove + toRemove + 1, Len(tweets)))]
  ELSE LET split == SplitLongest(tweets, targetCount)
       IN  IF split.threw THEN split
           ELSE [threw |-> FALSE, value |-> Reindex(Take(split.value, targetCount))]

TruncationWarning == "Tweet truncated to fit character limit"

\* the map of generateFallbackThread that validates every tweet and truncates
\* the ones over the limit; the warning is pushed to the array object of the
\* tweet, which every tweet with the same ref shows
ValidateAndFix(tweets) ==
  LET invalid(k) == ~validateTweetLength(tweets[k].text, tweets[k].hashtags,
                                         tweets[k].cta).isValid
      pushes(ref) == Cardinality({k \in 1..Len(tweets) :
                                    tweets[k].warnings.ref = ref /\ invalid(k)})
      fixed(k) ==
        LET tweet == tweets[k]
            text == IF invalid(k)
                    THEN truncateSmart(tweet.text, 280, tweet.hashtags, tweet.cta)
                    ELSE tweet.text
        IN  [tweet EXCEPT
               !.text = text,
               !.char_count = IF invalid(k)
                              THEN getCharCount(text, tweet.hashtags, tweet.cta)
                              ELSE tweet.char_count,
               !.warnings = [ref |-> tweet.warnings.ref,
                             items |-> tweet.warnings.items
                                         \o [i \in 1..pushes(tweet.warnings.ref) |->
                                               TruncationWarning]]]
  IN  [k \in 1..Len(tweets) |-> fixed(k)]

INTERNAL_ERROR == 500

\* the object the catch block of generateFallbackThread returns
FallbackError ==
  [error |-> "Failed to generate thread using local fallback", code |-> INTERNAL_ERROR]

\* the object generateFallbackThread returns for the final tweets; of the
\* metadata, tone_detected is left out, and so are thread_summary,
\* estimated_engagement_score and publishing_recommendations
FallbackResult(text, params, thread) ==
  [metadata |->
     [language |-> IF params.language = "auto" THEN getLanguageCode(text)
                   ELSE params.language,
      style_requested |-> params.style,
      max_tweets_requested |-> params.maxTweets,
      tweets_generated |-> Len(thread),
      direction |-> detectTextDirection(text)],
   thread |-> thread]

\* generateFallbackThread as one function of the text, the parameters and the
\* two values Math.random() yields
generateFallbackThread(text, params, prefixPick, ctaPick) ==
  LET drafted == DraftTweets(segmentText(text, params.maxTweets), params.style,
                             detectLanguagePercentages(text), prefixPick, ctaPick)
      counted == ensureExactTweetCount(drafted, params.maxTweets)
      tagged == IF params.includeHashtags
                THEN generateThreadHashtags(counted.value, ThreadHashtagOptions)
                ELSE counted.value
  IN  IF counted.threw THEN FallbackError
      ELSE FallbackResult(text, params, ValidateAndFix(dedupeHashtagsAndEmojis(tagged)))

\* ------------------------------------------------------------------------
\* services/geminiService
\* ------------------------------------------------------------------------

\* svc holds the settings and the module-level variables getServiceStatus
\* reads: GEMINI_ENABLED === 'true', the presence of GEMINI_API_KEY, whether
\* model is set, quotaUsed and quotaLimit
getServiceStatus(svc) ==
  LET withinQuota == svc.quotaUsed < svc.quotaLimit
  IN  [enabled |-> svc.enabled,
       configured |-> svc.configured,
       initialized |-> svc.initialized,
       quota_used |-> svc.quotaUsed,
       quota_limit |-> svc.quotaLimit,
       within_quota |-> withinQuota,
       available |-> svc.enabled /\ svc.configured /\ svc.initialized /\ withinQuota]

getUnavailableReason(status) ==
  IF ~status.enabled THEN "service_disabled"
  ELSE IF ~status.configured THEN "api_key_missing"
  ELSE IF ~status.initialized THEN "initialization_failed"
  ELSE IF ~status.within_quota THEN "quota_exceeded"
  ELSE "unknown"

maxRetries == 3
baseDelay == 1000

RECURSIVE Pow2(_)
Pow2(n) == IF n <= 0 THEN 1 ELSE 2 * Pow2(n - 1)

\* a variant of RetryDelay without the backoff
RetryDelayFixed(attempt) == baseDelay

\* baseDelay * Math.pow(2, attempt - 1)
RetryDelay(attempt) == baseDelay * Pow2(attempt - 1)

\* what a remote call comes to: the promise is rejected, the response does
\* not parse or fails a validation, the response is a valid thread
RemoteOutcomes == {"rejected", "invalid", "valid"}

\* the thread a valid response holds
RemoteData ==
  [metadata |-> [language |-> "en", tweets_generated |-> 1, direction |-> "ltr"],
   thread |-> << [index |-> 1, text |-> <<"h", "i">>, char_count |-> 2,
                  hashtags |-> <<>>] >>]

\* the response is one of the outcomes "invalid" and "valid"
parseGeminiResponse(response) ==
  IF response = "valid"
  THEN [success |-> TRUE,
        data |-> [RemoteData EXCEPT
                    !.thread = generateThreadHashtags(@, ThreadHashtagOptions)]]
  ELSE [success |-> FALSE, error |-> "json_parse_failed"]

\* useFallback, lines 374-379: the hashtags of the messages are generated anew
WithDynamicHashtags(fallbackResult) ==
  IF "thread" \in DOMAIN fallbackResult
  THEN [fallbackResult EXCEPT
          !.thread = generateThreadHashtags(@, ThreadHashtagOptions)]
  ELSE fallbackResult

\* a variant of useFallback that reports the failure of both generators
useFallbackBothFailed(text, params, prefixPick, ctaPick) ==
  [error |-> "Both Gemini and fallback generation failed"]

\* prefixPick and ctaPick are the values Math.random() yields in the
\* fallback generator. Neither generateFallbackThread nor
\* generateThreadHashtags throws, so the catch block is not reached.
useFallback(text, params, prefixPick, ctaPick) ==
  WithDynamicHashtags(generateFallbackThread(text, params, prefixPick, ctaPick))

\* ------------------------------------------------------------------------
\* State
\* ------------------------------------------------------------------------
\* call:   the function called and its arguments
\* ret:    what the call returned (NoRet while it has not returned)
\* pc:     the position of generateFallbackThread in its body
\* tweets: the local variable tweets of generateFallbackThread
\* service: the module-level state of the Gemini service and the environment
\*          settings it reads (enabled, configured, initialized, quotaUsed,
\*          quotaLimit)
\* request: the local state of a generateThread call (status, attempt,
\*          outcomes of the remote calls, pending delay, fallback reason)
VARIABLES call, ret, pc, tweets, service, request

vars == <<call, ret, pc, tweets, service, request>>

\* the Gemini service takes no part
NoService == [enabled |-> FALSE]
NoRequest == [attempt |-> 0]

NoCall == [fn |-> "none"]
NoRet == [returned |-> FALSE]
Returned(v) == [returned |-> TRUE, value |-> v]

\* ------------------------------------------------------------------------
\* generateFallbackThread
\* ------------------------------------------------------------------------
MaxTweets == 3
MaxShort == 3

LongWord == Repeat("a", 70)
ShortBlock == <<"a", "b">>

\* the blocks a text ends with: none, blanks, two long words, a long word
\* with no space in its first half, a long hashtag, five long words
LastBlocks ==
  { <<>>,
    <<SP, SP>>,
    LongWord \o <<SP>> \o LongWord,
    Repeat("x", 120) \o <<SP, "z">>,
    <<"#">> \o Repeat("t", 251),
    Join([i \in 1..5 |-> LongWord], <<SP>>) }

Separators == { <<DOT, SP>>, <<NL, NL>>, <<SP>> }

\* k short blocks and a last block, joined by one separator
Texts ==
  { Join([i \in 1..k |-> ShortBlock] \o (IF Len(last) > 0 THEN <<last>> ELSE <<>>), sep) :
      k \in 0..MaxShort, last \in LastBlocks, sep \in Separators }

Styles == {"professional"}

Init ==
  /\ call \in [fn : {"generateFallbackThread"}, text : Texts, style : Styles,
               maxTweets : 1..MaxTweets, includeHashtags : BOOLEAN,
               language : {"auto"}]
  /\ ret = NoRet
  /\ pc = "start"
  /\ tweets = <<>>
  /\ service = NoService
  /\ request = NoRequest

\* lines 29-50: analyse the text, segment it and draft one tweet per segment
DraftThread ==
  /\ pc = "start"
  /\ \E prefixPick \in 0..2, ctaPick \in 0..2 :
       tweets' = DraftTweets(segmentText(call.text, call.maxTweets), call.style,
                             detectLanguagePercentages(call.text), prefixPick, ctaPick)
  /\ pc' = "drafted"
  /\ UNCHANGED <<call, ret, service, request>>

\* line 53; an exception ends the call in the catch block
EnsureCount ==
  /\ pc = "drafted"
  /\ LET counted == ensureExactTweetCount(tweets, call.maxTweets)
     IN  IF counted.threw
         THEN /\ pc' = "done"
              /\ ret' = Returned(FallbackError)
              /\ UNCHANGED tweets
         ELSE /\ pc' = "counted"
              /\ tweets' = counted.value
              /\ UNCHANGED ret
  /\ UNCHANGED <<call, service, request>>

\* lines 56-61
ApplyHashtags ==
  /\ pc = "counted"
  /\ tweets' = IF call.includeHashtags
               THEN generateThreadHashtags(tweets, ThreadHashtagOptions)
               ELSE tweets
  /\ pc' = "tagged"
  /\ UNCHANGED <<call, ret, service, request>>

\* line 64
Dedupe ==
  /\ pc = "tagged"
  /\ tweets' = dedupeHashtagsAndEmojis(tweets)
  /\ pc' = "deduped"
  /\ UNCHANGED <<call, ret, service, request>>

\* lines 67-100: validate, truncate, build the metadata and return
ValidateAndReturn ==
  /\ pc = "deduped"
  /\ tweets' = ValidateAndFix(tweets)
  /\ ret' = Returned(FallbackResult(call.text, call, tweets'))
  /\ pc' = "done"
  /\ UNCHANGED <<call, service, request>>

Next ==
  \/ DraftThread
  \/ EnsureCount
  \/ ApplyHashtags
  \/ Dedupe
  \/ ValidateAndReturn

Spec == Init /\ [][Next]_vars

\* the call returned a thread (and not the error object)
ReturnedThread ==
  /\ call.fn = "generateFallbackThread"
  /\ pc = "done"
  /\ ret.returned
  /\ "thread" \in DOMAIN ret.value

\* the index fields of a thread are 1..k in order
IndexedInOrder(thread) == \A k \in 1..Len(thread) : thread[k].index = k

\* the text has no space at an index in 1..floor(length / 2)
NoSpaceInFirstHalf(text) == \A i \in 1..(Len(text) \div 2) : text[i + 1] # SP

\* the first of the longest messages of a thread
Longest(thread) ==
  thread[SetMin({i \in 1..Len(thread) :
                   \A j \in 1..Len(thread) : Len(thread[j].text) <= Len(thread[i].text)})]

C2_MessagesWithinLimit ==
  ReturnedThread =>
     \A k \in 1..Len(ret.value.thread) :
        getCharCount(ret.value.thread[k].text, ret.value.thread[k].hashtags,
                     ret.value.thread[k].cta) <= 280

\* C3: the char_count of every message of a returned thread equals
\* getCharCount(text, hashtags, cta) of its final text, hashtags and cta.
C3_StoredCountIsRecomputed ==
  ReturnedThread =>
     \A k \in 1..Len(ret.value.thread) :
        ret.value.thread[k].char_count =
          getCharCount(ret.value.thread[k].text, ret.value.thread[k].hashtags,
                       ret.value.thread[k].cta)

\* C7: generateFallbackThread never throws: the call ends by returning an
\* object; for an empty or whitespace-only text with maxTweets >= 1 that
\* object is the error object with code 500.
C7_BlankTextReturnsError ==
  (call.fn = "generateFallbackThread" /\ pc = "done") =>
     /\ ret.returned
     /\ (Len(Trim(call.text)) = 0 /\ call.maxTweets >= 1) =>
           ret.value = [error |-> "Failed to generate thread using local fallback",
                        code |-> 500]

\* the call returned the error object for a whitespace-only text
C7_Witness ==
  /\ call.fn = "generateFallbackThread"
  /\ pc = "done"
  /\ Len(call.text) > 0
  /\ Len(Trim(call.text)) = 0
  /\ ret = Returned(FallbackError)

C11_OnlyLastHasCta ==
  ReturnedThread =>
     \A k \in 1..Len(ret.value.thread) :
        (ret.value.thread[k].cta # <<>>) <=> (k = Len(ret.value.thread))

\* ------------------------------------------------------------------------
\* truncateSmart as a called function
\* ------------------------------------------------------------------------
MaxWords == 3
MaxLimit == 12

TruncWords ==
  { <<"a">>, <<"a", "a", DOT>>, <<"a", "a", "a", "a">>, <<HI, LO>>, Repeat("b", 9) }

RECURSIVE WordLists(_)
\* the lists of at most n words
WordLists(n) ==
  IF n = 0 THEN {<<>>}
  ELSE LET shorter == WordLists(n - 1)
       IN  shorter \cup {Append(ws, w) : ws \in {l \in shorter : Len(l) = n - 1}, w \in TruncWords}

TruncTexts == {Join(ws, <<SP>>) : ws \in WordLists(MaxWords)}
TruncHashtags == { <<>>, << <<"#", "a">> >>, << <<"#", "a">>, <<"#", "b">> >> }
TruncCtas == { <<>>, << <<"c", "?">> >> }

TruncateInit ==
  /\ call \in [fn : {"truncateSmart"}, text : TruncTexts, maxLength : 0..MaxLimit,
               hashtags : TruncHashtags, cta : TruncCtas]
  /\ ret = NoRet
  /\ pc = "call"
  /\ tweets = <<>>
  /\ service = NoService
  /\ request = NoRequest

TruncateSmartCall ==
  /\ call.fn = "truncateSmart"
  /\ ret = NoRet
  /\ ret' = Returned(truncateSmart(call.text, call.maxLength, call.hashtags, call.cta))
  /\ UNCHANGED <<call, pc, tweets, service, request>>

TruncateNext == TruncateSmartCall

SpecTruncate == TruncateInit /\ [][TruncateNext]_vars

\* the space truncateSmart leaves for the text of a call
TruncAvailable(c) ==
  c.maxLength
    - (IF Len(c.hashtags) > 0 THEN Len(Join(c.hashtags, <<SP>>)) + 1 ELSE 0)
    - (IF Len(c.cta) > 0 THEN Len(c.cta[1]) + 1 ELSE 0)

\* C4: truncateSmart(text, limit, hashtags, cta) returns a string r with
\* getCharCount(r, hashtags, cta) <= limit, for every text, limit, hashtag
\* list and cta, also when the space left for the text is smaller than the
\* three-unit ellipsis.
C4_TruncateFitsLimit ==
  (call.fn = "truncateSmart" /\ ret.returned) =>
     getCharCount(ret.value, call.hashtags, call.cta) <= call.maxLength

\* ------------------------------------------------------------------------
\* segmentText as a called function
\* ------------------------------------------------------------------------
MaxSegWords == 4
MaxSegments == 3

SegLetters == <<"p", "q", "r", "s", "t", "u">>

\* the texts of n words: the word at position i is made of the i-th letter,
\* one or four times
RECURSIVE SegWordLists(_)
SegWordLists(n) ==
  IF n = 0 THEN {<<>>}
  ELSE {Append(ws, Repeat(SegLetters[n], len)) : ws \in SegWordLists(n - 1), len \in {1, 4}}

SegTexts ==
  {Join(ws, sep) : ws \in UNION {SegWordLists(n) : n \in 0..MaxSegWords},
                   sep \in Separators}

SegmentInit ==
  /\ call \in [fn : {"segmentText"}, text : SegTexts, targetCount : 1..MaxSegments]
  /\ ret = NoRet
  /\ pc = "call"
  /\ tweets = <<>>
  /\ service = NoService
  /\ request = NoRequest

SegmentTextCall ==
  /\ call.fn = "segmentText"
  /\ ret = NoRet
  /\ ret' = Returned(segmentText(call.text, call.targetCount))
  /\ UNCHANGED <<call, pc, tweets, service, request>>

SegmentNext == SegmentTextCall

SpecSegment == SegmentInit /\ [][SegmentNext]_vars

\* the characters of a string that are neither whitespace nor one of the
\* separator characters '.', '!', '?'
Content(s) == SelectSeq(s, LAMBDA c : ~IsSpace(c) /\ c \notin {".", "!", "?"})

\* C9: the segments returned by segmentText(s, n) cover s in original order:
\* ignoring separators and whitespace, the concatenation of the segments is
\* s, so that no character is dropped, duplicated or reordered.
C9_SegmentsCoverText ==
  (call.fn = "segmentText" /\ ret.returned) =>
     Content(FlattenSeq(ret.value)) = Content(call.text)

\* ------------------------------------------------------------------------
\* balanceHashtagsAcrossThread and dedupeHashtagsAndEmojis as called functions
\* ------------------------------------------------------------------------
MaxThread == 3

\* the hashtag lists a message comes with
TagLists ==
  { <<>>,
    << <<"#", "a">> >>,
    << <<"#", "A">>, <<"#", "b">> >>,
    << <<"#", "c">>, <<"#", "d">>, <<"#", "e">> >>,
    << <<"f">>, <<"#", "g">>, <<"#", "h">>, <<"#", "i">> >> }

\* the texts a message comes with: without and with a hashtag
TagTexts == { <<"x">>, <<"x", SP, "#", "j">> }

TaggedTweets ==
  [text : TagTexts, hashtags : TagLists, emoji_suggestions : {<<>>}]

BalanceThreads == UNION {[1..n -> TaggedTweets] : n \in 1..MaxThread}

BalanceInit ==
  /\ call \in [fn : {"balanceHashtagsAcrossThread", "dedupeHashtagsAndEmojis"},
               tweets : BalanceThreads, maxPerTweet : {3}]
  /\ ret = NoRet
  /\ pc = "call"
  /\ tweets = <<>>
  /\ service = NoService
  /\ request = NoRequest

BalanceHashtagsCall ==
  /\ call.fn = "balanceHashtagsAcrossThread"
  /\ ret = NoRet
  /\ ret' = Returned(balanceHashtagsAcrossThread(call.tweets, call.maxPerTweet))
  /\ UNCHANGED <<call, pc, tweets, service, request>>

DedupeHashtagsAndEmojisCall ==
  /\ call.fn = "dedupeHashtagsAndEmojis"
  /\ ret = NoRet
  /\ ret' = Returned(dedupeHashtagsAndEmojis(call.tweets))
  /\ UNCHANGED <<call, pc, tweets, service, request>>

BalanceNext == BalanceHashtagsCall \/ DedupeHashtagsAndEmojisCall

SpecBalance == BalanceInit /\ [][BalanceNext]_vars

\* the normalized form of a hashtag: lower case, one leading '#'
Normalized(tag) == <<"#">> \o ToLowerCase(Trim(StripLeadingHashes(tag)))

\* no normalized hashtag is in the hashtag lists of two messages
NoSharedHashtag(thread) ==
  \A i, j \in 1..Len(thread) :
     i < j =>
       \A a \in 1..Len(thread[i].hashtags), b \in 1..Len(thread[j].hashtags) :
          Normalized(thread[i].hashtags[a]) # Normalized(thread[j].hashtags[b])

\* C5: after balanceHashtagsAcrossThread, and after dedupeHashtagsAndEmojis,
\* no normalized hashtag appears in the hashtag lists of two different
\* messages of the thread.
C5_NoHashtagInTwoMessages ==
  (call.fn \in {"balanceHashtagsAcrossThread", "dedupeHashtagsAndEmojis"} /\ ret.returned) =>
     NoSharedHashtag(ret.value)

\* ------------------------------------------------------------------------
\* generateThreadHashtags as a called function
\* ------------------------------------------------------------------------

\* the texts of the messages: no topic, one topic, two topics, an Arabic
\* text, a mixed text, the empty text
HashtagTexts ==
  { <<"h", "i">>,
    <<"a", "i">>,
    <<"A", "I", SP, "t", "e", "c", "h">>,
    <<"U+0645", "U+0631", "U+062D", "U+0628", "U+0627">>,
    <<"U+0645", "U+0631", "U+062D", "U+0628", "U+0627", SP, "a", "i", SP, "a", "p", "i">>,
    <<>> }

HashtagThreads == UNION {[1..n -> [text : HashtagTexts, hashtags : {<<>>}]] : n \in 1..MaxThread}

HashtagsInit ==
  /\ call \in [fn : {"generateThreadHashtags"}, thread : HashtagThreads,
               options : {ThreadHashtagOptions}]
  /\ ret = NoRet
  /\ pc = "call"
  /\ tweets = <<>>
  /\ service = NoService
  /\ request = NoRequest

GenerateThreadHashtagsCall ==
  /\ call.fn = "generateThreadHashtags"
  /\ ret = NoRet
  /\ ret' = Returned(generateThreadHashtags(call.thread, call.options))
  /\ UNCHANGED <<call, pc, tweets, service, request>>

HashtagsNext == GenerateThreadHashtagsCall

SpecHashtags == HashtagsInit /\ [][HashtagsNext]_vars

\* C6: after generateThreadHashtags no hashtag is assigned to more than one
\* message of the thread and no message lists the same hashtag twice.
C6_HashtagsAssignedOnce ==
  (call.fn = "generateThreadHashtags" /\ ret.returned) =>
     /\ \A i, j \in 1..Len(ret.value) :
          i < j =>
            \A a \in 1..Len(ret.value[i].hashtags), b \in 1..Len(ret.value[j].hashtags) :
               ret.value[i].hashtags[a] # ret.value[j].hashtags[b]
     /\ \A i \in 1..Len(ret.value) :
          \A a, b \in 1..Len(ret.value[i].hashtags) :
             a < b => ret.value[i].hashtags[a] # ret.value[i].hashtags[b]

\* three messages of the same topic all got hashtags
C6_Witness ==
  /\ call.fn = "generateThreadHashtags"
  /\ ret.returned
  /\ Len(ret.value) = 3
  /\ \A i \in 1..3 : call.thread[i].text = <<"a", "i">> /\ Len(ret.value[i].hashtags) >= 3

\* ------------------------------------------------------------------------
\* generateTweetHashtags and generateThreadHashtags under any options
\* ------------------------------------------------------------------------
MaxHashtagsOption == 5

\* the options a caller passes: maxHashtags is a natural number up to
\* MaxHashtagsOption, englishRatio one of 0, 0.7 and 1
HashtagOptions ==
  { [maxHashtags |-> n, englishRatioNum |-> r[1], englishRatioDen |-> r[2],
     includeThreadHashtag |-> t, forceArabic |-> f] :
       n \in 0..MaxHashtagsOption, r \in {<<0, 1>>, <<7, 10>>, <<1, 1>>},
       t \in BOOLEAN, f \in BOOLEAN }

\* generateTweetHashtags is called with any options and a set of used
\* hashtags that is empty or holds a thread marker or the first topic
\* hashtag; generateThreadHashtags is called with any options
TweetHashtagsInit ==
  /\ call \in [fn : {"generateTweetHashtags"}, text : HashtagTexts,
               options : HashtagOptions,
               usedHashtags : {{}, {THREAD_HASHTAGS.english[1]},
                               {HASHTAG_DICTIONARY.ai.english[1]}}]
              \cup
              [fn : {"generateThreadHashtags"}, thread : HashtagThreads,
               options : {o \in HashtagOptions :
                            o.englishRatioNum = 7 /\ ~o.forceArabic}]
  /\ ret = NoRet
  /\ pc = "call"
  /\ tweets = <<>>
  /\ service = NoService
  /\ request = NoRequest

\* the call returns the array and leaves the set it was given with the
\* hashtags it has added
GenerateTweetHashtagsCall ==
  /\ call.fn = "generateTweetHashtags"
  /\ ret = NoRet
  /\ LET r == generateTweetHashtags(call.text, call.options, call.usedHashtags)
     IN  /\ ret' = Returned(r.hashtags)
         /\ call' = [call EXCEPT !.usedHashtags = r.usedHashtags]
  /\ UNCHANGED <<pc, tweets, service, request>>

SpecTweetHashtags ==
  TweetHashtagsInit /\ [][GenerateTweetHashtagsCall \/ GenerateThreadHashtagsCall]_vars

\* C19: generateTweetHashtags returns at most maxHashtags hashtags, also when
\* the thread marker is prepended; generateThreadHashtags gives every message
\* but the last at most 3 hashtags and the last at most 4, whatever
\* maxHashtags its options hold.
C19_HashtagCaps ==
  /\ (call.fn = "generateTweetHashtags" /\ ret.returned) =>
        Len(ret.value) <= call.options.maxHashtags
  /\ (call.fn = "generateThreadHashtags" /\ ret.returned) =>
        \A k \in 1..Len(ret.value) :
           Len(ret.value[k].hashtags) <= IF k = Len(ret.value) THEN 4 ELSE 3

\* the topic hashtags alone fill the 3 slots, the thread marker is put in
\* front of them, and 3 hashtags are returned, the marker first
C19_Witness ==
  /\ call.fn = "generateTweetHashtags"
  /\ ret.returned
  /\ call.text = <<"a", "i">>
  /\ call.options.includeThreadHashtag
  /\ call.options.maxHashtags = 3
  /\ call.options.englishRatioNum = 1
  /\ Len(ret.value) = 3
  /\ ret.value[1] = THREAD_HASHTAGS.english[1]

\* C28: a call generateTweetHashtags(text, options, usedSet) adds to usedSet
\* exactly the hashtags it returns.
C28_UsedSetGainsReturnedTags ==
  [][(call.fn = "generateTweetHashtags" /\ ~ret.returned /\ ret'.returned) =>
       call'.usedHashtags
         = call.usedHashtags \cup {ret'.value[i] : i \in 1..Len(ret'.value)}]_vars

\* ------------------------------------------------------------------------
\* generateFallbackThread as a called function, on texts of several scripts
\* ------------------------------------------------------------------------
MaxLangWords == 3

\* an Arabic word, two English words (keywords of the topics finance and ai)
\* and an emoji of the range U+1F300-U+1F9FF
LangWords ==
  { <<"U+0645", "U+0627", "U+0644">>,
    <<"m", "o", "n", "e", "y">>,
    <<"a", "i">>,
    <<HI, LO>> }

\* the sequences of n words
RECURSIVE LangWordLists(_)
LangWordLists(n) ==
  IF n = 0 THEN {<<>>}
  ELSE {Append(ws, w) : ws \in LangWordLists(n - 1), w \in LangWords}

\* the text is one to MaxLangWords words, a space between them
LanguagesInit ==
  /\ call \in [fn : {"generateFallbackThread"},
               text : {Join(ws, <<SP>>) :
                         ws \in UNION {LangWordLists(n) : n \in 1..MaxLangWords}},
               style : Styles, maxTweets : 1..2, includeHashtags : BOOLEAN,
               language : {"auto"}]
  /\ ret = NoRet
  /\ pc = "call"
  /\ tweets = <<>>
  /\ service = NoService
  /\ request = NoRequest

\* the whole of generateFallbackThread; prefixPick and ctaPick are the values
\* Math.random() yields
GenerateFallbackThreadCall ==
  /\ call.fn = "generateFallbackThread"
  /\ pc = "call"
  /\ \E prefixPick \in 0..2, ctaPick \in 0..2 :
       ret' = Returned(generateFallbackThread(call.text, call, prefixPick, ctaPick))
  /\ pc' = "done"
  /\ UNCHANGED <<call, tweets, service, request>>

SpecLanguages == LanguagesInit /\ [][GenerateFallbackThreadCall]_vars

\* the letters of a text: what is left of it without whitespace, digits,
\* punctuation and symbols
LettersOf(text) == SelectSeq(text, LAMBDA c : ~IsStripped(c))

\* the Arabic letters are more than 30% of the letters of the text
ArabicShareAbove30(text) ==
  100 * Len(SelectSeq(LettersOf(text), LAMBDA c : c \in ArabicUnits))
     > 30 * Len(LettersOf(text))

\* the hashtags of the Arabic pools: of the topics of the dictionary and of
\* the thread markers
ArabicPool ==
  UNION {{HASHTAG_DICTIONARY[topic].arabic[i] :
            i \in 1..Len(HASHTAG_DICTIONARY[topic].arabic)} :
         topic \in DOMAIN HASHTAG_DICTIONARY}
    \cup {THREAD_HASHTAGS.arabic[i] : i \in 1..Len(THREAD_HASHTAGS.arabic)}

\* C12: metadata.direction is "rtl" for every text whose Arabic letter share
\* exceeds 30% and "ltr" for every other text, whatever the share of English
\* letters.
C12_DirectionFollowsArabicShare ==
  ReturnedThread =>
     ret.value.metadata.direction =
        IF ArabicShareAbove30(call.text) THEN "rtl" ELSE "ltr"

\* C13: for a text whose Arabic letter share exceeds 30%, generated with
\* includeHashtags = true, at least one message of the returned thread
\* carries a hashtag of an Arabic pool.
C13_ArabicTextGetsArabicHashtag ==
  (ReturnedThread /\ call.includeHashtags /\ ArabicShareAbove30(call.text)) =>
     \E k \in 1..Len(ret.value.thread) :
        \E i \in 1..Len(ret.value.thread[k].hashtags) :
           ret.value.thread[k].hashtags[i] \in ArabicPool

\* C16: every message of a returned thread has at most 3 emoji suggestions,
\* all distinct.
C16_AtMostThreeEmojiSuggestions ==
  ReturnedThread =>
     \A k \in 1..Len(ret.value.thread) :
        LET emojis == ret.value.thread[k].emoji_suggestions
        IN  /\ Len(emojis) <= 3
            /\ \A i, j \in 1..Len(emojis) : emojis[i] = emojis[j] => i = j

\* ------------------------------------------------------------------------
\* detectLanguagePercentages as a called function
\* ------------------------------------------------------------------------
MaxLetters == 10

\* a text of a Arabic letters, e Latin letters and o other letters, with or
\* without a digit, a space and a punctuation mark between them
LetterText(a, e, o, padded) ==
  Repeat("U+0645", a) \o (IF padded THEN <<"1", SP>> ELSE <<>>)
    \o Repeat("e", e) \o (IF padded THEN <<"!">> ELSE <<>>) \o Repeat("U+00F8", o)

LangDetectInit ==
  /\ \E a \in 0..MaxLetters, e \in 0..MaxLetters, o \in 0..MaxLetters, padded \in BOOLEAN :
       /\ a + e + o <= MaxLetters
       /\ call = [fn |-> "detectLanguagePercentages", text |-> LetterText(a, e, o, padded)]
  /\ ret = NoRet
  /\ pc = "call"
  /\ tweets = <<>>
  /\ service = NoService
  /\ request = NoRequest

DetectLanguagePercentagesCall ==
  /\ call.fn = "detectLanguagePercentages"
  /\ pc = "call"
  /\ ret' = Returned(detectLanguagePercentages(call.text))
  /\ pc' = "done"
  /\ UNCHANGED <<call, tweets, service, request>>

SpecLangDetect == LangDetectInit /\ [][DetectLanguagePercentagesCall]_vars

\* the number of code units of a text that are in the set S
CountOf(text, S) == Len(SelectSeq(text, LAMBDA c : c \in S))

\* C14: with a, e, o the counts of the Arabic, Latin and other letters and
\* t = a + e + o: when t = 0 every percentage is 0, dominant_language is
\* "unknown", direction "ltr" and is_mixed false; when t > 0,
\* dominant_language is the class whose count is strictly greater than both
\* others and "unknown" on a tie for the maximum, direction is "rtl" iff
\* 100 * a > 30 * t, and is_mixed iff 100 * a > 10 * t and 100 * e > 10 * t.
C14_ProfileFromLetterCounts ==
  (call.fn = "detectLanguagePercentages" /\ ret.returned) =>
     LET a == CountOf(call.text, ArabicUnits)
         e == CountOf(call.text, AsciiLetters)
         o == CountOf(call.text, {"U+00F8"})
         t == a + e + o
         r == ret.value
     IN  IF t = 0
         THEN /\ r.arabic = 0 /\ r.english = 0 /\ r.other = 0
              /\ r.dominant_language = "unknown"
              /\ r.direction = "ltr"
              /\ r.is_mixed = FALSE
         ELSE /\ r.dominant_language =
                   (IF a > e /\ a > o THEN "arabic"
                    ELSE IF e > a /\ e > o THEN "english"
                    ELSE IF o > a /\ o > e THEN "other"
                    ELSE "unknown")
              /\ (r.direction = "rtl") <=> (100 * a > 30 * t)
              /\ r.direction \in {"rtl", "ltr"}
              /\ r.is_mixed <=> (100 * a > 10 * t /\ 100 * e > 10 * t)

\* a text with exactly 30% Arabic and exactly 10% Latin letters was profiled
C14_Witness ==
  /\ call.fn = "detectLanguagePercentages"
  /\ ret.returned
  /\ CountOf(call.text, ArabicUnits) = 3
  /\ CountOf(call.text, AsciiLetters) = 1
  /\ CountOf(call.text, {"U+00F8"}) = 6
  /\ ret.value.direction = "ltr"
  /\ ~ret.value.is_mixed

\* ------------------------------------------------------------------------
\* dedupeHashtags as a called function
\* ------------------------------------------------------------------------
MaxTags == 3

\* the strings of the lists: with no, one and two leading '#', in upper and
\* lower case, with whitespace before and after the '#', empty and blank
RawTags ==
  { <<"#", "a">>, <<"a">>, <<"#", "A">>, <<"#", "#", "a">>, <<SP, "#", "a">>,
    <<"#", SP, "#", "a">>, <<"#">>, <<SP>>, <<>> }

\* the lists of n strings
RECURSIVE RawTagLists(_)
RawTagLists(n) ==
  IF n = 0 THEN {<<>>}
  ELSE {Append(tags, tag) : tags \in RawTagLists(n - 1), tag \in RawTags}

DedupeInit ==
  /\ call \in [fn : {"dedupeHashtags"},
               hashtags : UNION {RawTagLists(n) : n \in 0..MaxTags}]
  /\ ret = NoRet
  /\ pc = "call"
  /\ tweets = <<>>
  /\ service = NoService
  /\ request = NoRequest

DedupeHashtagsCall ==
  /\ call.fn = "dedupeHashtags"
  /\ pc = "call"
  /\ ret' = Returned(dedupeHashtags(call.hashtags))
  /\ pc' = "done"
  /\ UNCHANGED <<call, tweets, service, request>>

SpecDedupe == DedupeInit /\ [][DedupeHashtagsCall]_vars

\* C15: dedupeHashtags(dedupeHashtags(X)) equals dedupeHashtags(X) element
\* for element, and each tag of dedupeHashtags(X) is lower-case with exactly
\* one leading '#'.
C15_DedupeHashtagsIdempotent ==
  (call.fn = "dedupeHashtags" /\ ret.returned) =>
     /\ dedupeHashtags(ret.value) = ret.value
     /\ \A i \in 1..Len(ret.value) :
          /\ ret.value[i][1] = "#"
          /\ Len(ret.value[i]) > 1
          /\ ret.value[i][2] # "#"
          /\ ToLowerCase(ret.value[i]) = ret.value[i]

\* ------------------------------------------------------------------------
\* generateThread
\* ------------------------------------------------------------------------
QuotaLimit == 2

GeminiTexts == { <<>>, ShortBlock, ShortBlock \o <<DOT, SP>> \o ShortBlock }

GeminiCalls ==
  [fn : {"generateThread"}, text : GeminiTexts, style : Styles,
   maxTweets : 1..MaxTweets, includeHashtags : BOOLEAN, language : {"auto"}]

GeminiInit ==
  /\ call \in GeminiCalls
  /\ ret = NoRet
  /\ pc = "start"
  /\ tweets = <<>>
  /\ service \in {svc \in [enabled : BOOLEAN, configured : BOOLEAN, initialized : BOOLEAN,
                           quotaUsed : 0..QuotaLimit, quotaLimit : {QuotaLimit}] :
                    svc.initialized => (svc.enabled /\ svc.configured)}
  /\ request = [status |-> [available |-> FALSE], attempt |-> 0, outcomes |-> <<>>,
                delayMs |-> 0, reason |-> "none"]

\* generateThread, lines 103-111: read the service status and choose the route
CheckStatus ==
  /\ call.fn = "generateThread"
  /\ pc = "start"
  /\ LET status == getServiceStatus(service)
     IN  IF status.available
         THEN /\ request' = [request EXCEPT !.status = status, !.attempt = 1]
              /\ pc' = "attempt"
         ELSE /\ request' = [request EXCEPT !.status = status,
                                            !.reason = "service_unavailable"]
              /\ pc' = "fallback"
  /\ UNCHANGED <<call, ret, tweets, service>>

\* callGeminiWithRetry, lines 148-163: check the quota, count the call and
\* start it
StartAttempt ==
  /\ call.fn = "generateThread"
  /\ pc = "attempt"
  /\ IF service.quotaUsed >= service.quotaLimit
     THEN /\ request' = [request EXCEPT !.outcomes = Append(@, "quota_exceeded"),
                                        !.reason = "quota_exceeded"]
          /\ pc' = "fallback"
          /\ UNCHANGED service
     ELSE /\ service' = [service EXCEPT !.quotaUsed = @ + 1]
          /\ pc' = "awaiting"
          /\ UNCHANGED request
  /\ UNCHANGED <<call, ret, tweets>>

\* callGeminiWithRetry, lines 163-194, and generateThread, lines 116-127:
\* the remote call settles
RemoteSettles ==
  /\ call.fn = "generateThread"
  /\ pc = "awaiting"
  /\ \E outcome \in RemoteOutcomes :
       LET parsed == parseGeminiResponse(outcome)
           noted == [request EXCEPT !.outcomes = Append(@, outcome)]
       IN  IF outcome # "rejected" /\ parsed.success
           THEN /\ ret' = Returned(parsed.data)
                /\ request' = noted
                /\ pc' = "done"
           ELSE IF request.attempt < maxRetries
           THEN /\ request' = [noted EXCEPT !.delayMs = RetryDelay(request.attempt)]
                /\ pc' = "delay"
                /\ UNCHANGED ret
           ELSE /\ request' = [noted EXCEPT
                                 !.reason = IF outcome = "rejected" THEN "api_call_failed"
                                            ELSE parsed.error]
                /\ pc' = "fallback"
                /\ UNCHANGED ret
  /\ UNCHANGED <<call, tweets, service>>

\* the timer of delay() fires and the next attempt begins
DelayElapses ==
  /\ call.fn = "generateThread"
  /\ pc = "delay"
  /\ request' = [request EXCEPT !.attempt = @ + 1, !.delayMs = 0]
  /\ pc' = "attempt"
  /\ UNCHANGED <<call, ret, tweets, service>>

\* generateThread returns what useFallback returns
UseFallback ==
  /\ call.fn = "generateThread"
  /\ pc = "fallback"
  /\ \E prefixPick \in 0..2, ctaPick \in 0..2 :
       ret' = Returned(useFallback(call.text, call, prefixPick, ctaPick))
  /\ pc' = "done"
  /\ UNCHANGED <<call, tweets, service, request>>

\* resetQuota, called at any time
ResetQuota ==
  /\ call.fn = "generateThread"
  /\ service' = [service EXCEPT !.quotaUsed = 0]
  /\ UNCHANGED <<call, ret, pc, tweets, request>>

GeminiNext ==
  \/ CheckStatus
  \/ StartAttempt
  \/ RemoteSettles
  \/ DelayElapses
  \/ UseFallback
  \/ ResetQuota

SpecGemini == GeminiInit /\ [][GeminiNext]_vars

\* the steps that leave the positions "awaiting" and "fallback": of the steps
\* of GeminiNext they are RemoteSettles, which is enabled exactly when
\* pc = "awaiting", and UseFallback, which is enabled exactly when
\* pc = "fallback"
LeaveAwaiting == pc = "awaiting" /\ pc' \in {"done", "delay", "fallback"}
LeaveFallback == pc = "fallback" /\ pc' = "done"

\* Every step of a request is taken once it can be: the event loop runs the
\* continuations, the timers fire, and a remote call settles (it resolves or
\* is rejected). resetQuota is called or not, as the caller pleases.
FairSpecGemini ==
  /\ SpecGemini
  /\ WF_vars(CheckStatus)
  /\ WF_vars(StartAttempt)
  /\ WF_pc(LeaveAwaiting)
  /\ WF_vars(DelayElapses)
  /\ WF_pc(LeaveFallback)

\* result is what the local fallback generator produces for the text and the
\* parameters, for some values of Math.random(): the error object, or the
\* same metadata and the same messages (useFallback assigns the hashtags of
\* the messages anew)
FromFallbackGenerator(result, text, params) ==
  \E prefixPick \in 0..2, ctaPick \in 0..2 :
     LET produced == generateFallbackThread(text, params, prefixPick, ctaPick)
     IN  IF "thread" \in DOMAIN produced
         THEN /\ "thread" \in DOMAIN result
              /\ result.metadata = produced.metadata
              /\ Len(result.thread) = Len(produced.thread)
              /\ \A k \in 1..Len(produced.thread) :
                   [result.thread[k] EXCEPT !.hashtags = produced.thread[k].hashtags]
                     = produced.thread[k]
         ELSE result = produced

\* every remote attempt of the request failed
EveryAttemptFailed ==
  /\ Len(request.outcomes) > 0
  /\ \A i \in 1..Len(request.outcomes) : request.outcomes[i] # "valid"

RemoteCalls ==
  Cardinality({i \in 1..Len(request.outcomes) : request.outcomes[i] # "quota_exceeded"})
    + (IF pc = "awaiting" THEN 1 ELSE 0)

\* the remote call settled last failed: it was rejected or its response was
\* not a valid thread
LastAttemptFailed(req) ==
  /\ Len(req.outcomes) > 0
  /\ req.outcomes[Len(req.outcomes)] \in {"rejected", "invalid"}

\* C20: a generateThread request makes at most 3 remote calls; attempt k + 1
\* is started only after attempt k failed and only for k < 3, after a delay
\* of 1000 * 2^(k - 1) ms; after the third failed attempt there is no further
\* remote call and the request goes to the fallback.
C20_BoundedRetriesWithBackoff ==
  /\ [](call.fn = "generateThread" => (RemoteCalls <= 3 /\ request.attempt <= 3))
  /\ [][call.fn = "generateThread" =>
          /\ (pc # "delay" /\ pc' = "delay") =>
                /\ pc = "awaiting"
                /\ request.attempt < 3
                /\ LastAttemptFailed(request')
                /\ request'.delayMs = (IF request.attempt = 1 THEN 1000 ELSE 2000)
          /\ (request.attempt >= 1 /\ request'.attempt # request.attempt) =>
                /\ pc = "delay"
                /\ LastAttemptFailed(request)
                /\ request.attempt < 3
                /\ request'.attempt = request.attempt + 1
          /\ (pc # "awaiting" /\ pc' = "awaiting") =>
                /\ pc = "attempt"
                /\ Len(request.outcomes) = request.attempt - 1
                /\ \A i \in 1..Len(request.outcomes) :
                     request.outcomes[i] \in {"rejected", "invalid"}
          /\ (/\ pc = "awaiting"
              /\ request.attempt = 3
              /\ Len(request'.outcomes) > Len(request.outcomes)
              /\ LastAttemptFailed(request')) =>
                pc' = "fallback"
          /\ pc = "fallback" => pc' \in {"fallback", "done"}]_vars

\* the second attempt of a request failed and the third is due in 2000 ms
C20_Witness ==
  /\ call.fn = "generateThread"
  /\ pc = "delay"
  /\ request.attempt = 2
  /\ Len(request.outcomes) = 2
  /\ LastAttemptFailed(request)
  /\ request.delayMs = 2000

\* ------------------------------------------------------------------------
\* utils/inputSanitizer and the POST /api/generate-thread handler
\* ------------------------------------------------------------------------

MAX_INPUT_LENGTH == 10000
MAX_TWEETS_PER_THREAD == 20
DEFAULT_MAX_TWEETS == 5
VALIDATION_ERROR == 400
PAYLOAD_TOO_LARGE == 413

\* the elements of s at the indices in keep, in order
KeepAt(s, keep) ==
  [k \in 1..Cardinality(keep) |->
     s[CHOOSE i \in keep : Cardinality({j \in keep : j <= i}) = k]]

RECURSIVE RemoveTags(_)
\* replace(/<[^>]*>/g, ''): a match starts at the first '<' that has a '>'
\* after it and ends at the first such '>'
RemoveTags(s) ==
  LET opens == {i \in 1..Len(s) :
                  s[i] = "<" /\ \E j \in (i + 1)..Len(s) : s[j] = ">"}
  IN  IF opens = {} THEN s
      ELSE LET i == SetMin(opens)
               j == SetMin({k \in (i + 1)..Len(s) : s[k] = ">"})
           IN  SubSeq(s, 1, i - 1) \o RemoveTags(SubSeq(s, j + 1, Len(s)))

RECURSIVE RemoveElements(_, _, _)
\* replace(/<script\b[^<]*(?:(?!<\/script>)<[^<]*)*<\/script>/gi, '') and
\* the same for style: a match starts at an opening "<script" that ends at
\* a word boundary and has a closing tag after it, and ends with the first
\* such closing tag
RemoveElements(s, open, close) ==
  LET lower == ToLowerCase(s)
      closesAfter(i) == {j \in (i + Len(open))..Len(s) : MatchesAt(lower, close, j)}
      opens == {i \in 1..Len(s) :
                  /\ MatchesAt(lower, open, i)
                  /\ i + Len(open) <= Len(s)
                  /\ ~IsWordChar(s[i + Len(open)])
                  /\ closesAfter(i) # {}}
  IN  IF opens = {} THEN s
      ELSE LET i == SetMin(opens)
               j == SetMin(closesAfter(i))
           IN  SubSeq(s, 1, i - 1)
                 \o RemoveElements(SubSeq(s, j + Len(close), Len(s)), open, close)

RECURSIVE ReplaceAll(_, _, _)
\* String.prototype.replace with a global pattern that is a literal string
ReplaceAll(s, pattern, replacement) ==
  LET hits == {i \in 1..(Len(s) - Len(pattern) + 1) : MatchesAt(s, pattern, i)}
  IN  IF hits = {} THEN s
      ELSE LET i == SetMin(hits)
           IN  SubSeq(s, 1, i - 1) \o replacement
                 \o ReplaceAll(SubSeq(s, i + Len(pattern), Len(s)), pattern, replacement)

\* the chain of replacements that decodes the HTML entities (the quotation
\* mark and the backtick are written U+0022 and U+0060)
DecodeEntities(s) ==
  LET lt == ReplaceAll(s, <<"&", "l", "t", ";">>, <<"<">>)
      gt == ReplaceAll(lt, <<"&", "g", "t", ";">>, <<">">>)
      amp == ReplaceAll(gt, <<"&", "a", "m", "p", ";">>, <<"&">>)
      quot == ReplaceAll(amp, <<"&", "q", "u", "o", "t", ";">>, <<"U+0022">>)
      apos == ReplaceAll(quot, <<"&", "#", "x", "2", "7", ";">>, <<"'">>)
      slash == ReplaceAll(apos, <<"&", "#", "x", "2", "F", ";">>, <<"/">>)
  IN  ReplaceAll(slash, <<"&", "#", "9", "6", ";">>, <<"U+0060">>)

\* [\x00-\x08\x0B\x0C\x0E-\x1F\x7F]
ControlUnits ==
  { "U+0000", "U+0001", "U+0002", "U+0003", "U+0004", "U+0005", "U+0006",
    "U+0007", "U+0008", "U+000B", "U+000C", "U+000E", "U+000F", "U+0010",
    "U+0011", "U+0012", "U+0013", "U+0014", "U+0015", "U+0016", "U+0017",
    "U+0018", "U+0019", "U+001A", "U+001B", "U+001C", "U+001D", "U+001E",
    "U+001F", "U+007F" }

\* replace(/[\x00-\x08\x0B\x0C\x0E-\x1F\x7F]/g, '')
RemoveControlChars(s) == KeepAt(s, {i \in 1..Len(s) : s[i] \notin ControlUnits})

\* replace(/[ \t]+/g, ' ') and then replace(/\n{3,}/g, '\n\n')
NormalizeWhitespace(s) ==
  LET blank(c) == c \in {SP, "U+0009"}
      spaced == [i \in 1..Len(s) |-> IF blank(s[i]) THEN SP ELSE s[i]]
      single == KeepAt(spaced, {i \in 1..Len(s) :
                                  ~(blank(s[i]) /\ i > 1 /\ blank(s[i - 1]))})
  IN  KeepAt(single, {i \in 1..Len(single) :
                        ~(/\ i > 2
                          /\ single[i] = NL
                          /\ single[i - 1] = NL
                          /\ single[i - 2] = NL)})

\* sanitizeInput with the default options; maxLength is
\* parseInt(process.env.MAX_INPUT_LENGTH) || the configured MAX_INPUT_LENGTH
sanitizeInput(input, maxLength) ==
  LET untagged == RemoveTags(input)
      unscripted == RemoveElements(untagged, <<"<", "s", "c", "r", "i", "p", "t">>,
                                   <<"<", "/", "s", "c", "r", "i", "p", "t", ">">>)
      unstyled == RemoveElements(unscripted, <<"<", "s", "t", "y", "l", "e">>,
                                 <<"<", "/", "s", "t", "y", "l", "e", ">">>)
      decoded == DecodeEntities(unstyled)
      trimmed == Trim(NormalizeWhitespace(RemoveControlChars(decoded)))
  IN  IF Len(input) = 0 THEN <<>>
      ELSE IF Len(trimmed) > maxLength THEN Substring(trimmed, 0, maxLength)
      ELSE trimmed

\* parseInt(process.env.MAX_INPUT_LENGTH) || the configured MAX_INPUT_LENGTH, with
\* 0 for a variable that is not set
MaxInputLength(env) ==
  IF env.MAX_INPUT_LENGTH # 0 THEN env.MAX_INPUT_LENGTH ELSE MAX_INPUT_LENGTH

\* validateParameters: an optional field of params is <<>> when it is absent
\* and <<v>> when it holds v; language and style are "" when absent. The
\* flags, when present, are booleans; includeImages is absent.
validateParameters(params, env) ==
  LET textErrors ==
        IF params.text = <<>> \/ Len(params.text[1]) = 0
        THEN <<"Text is required and must be a string">>
        ELSE IF Len(Trim(params.text[1])) = 0
        THEN <<"Text cannot be empty">>
        ELSE IF Len(params.text[1]) > MaxInputLength(env)
        THEN <<"Text exceeds maximum length">>
        ELSE <<>>
      languageErrors ==
        IF params.language # "" /\ params.language \notin {"auto", "ar", "en", "both"}
        THEN <<"Language must be one of: auto, ar, en, both">>
        ELSE <<>>
      styleErrors ==
        IF params.style # ""
           /\ params.style \notin {"educational", "technical", "concise",
                                   "engaging", "professional"}
        THEN <<"Style must be one of">>
        ELSE <<>>
      maxTweetsErrors ==
        IF params.maxTweets = <<>> THEN <<>>
        ELSE IF params.maxTweets[1] < 1
        THEN <<"maxTweets must be a positive integer">>
        ELSE IF params.maxTweets[1] > MAX_TWEETS_PER_THREAD
        THEN <<"maxTweets cannot exceed 20">>
        ELSE <<>>
      errors == textErrors \o languageErrors \o styleErrors \o maxTweetsErrors
  IN  IF Len(errors) > 0
      THEN [error |-> errors, code |-> VALIDATION_ERROR]
      ELSE [success |-> TRUE,
            sanitized |->
              [text |-> sanitizeInput(params.text[1], MaxInputLength(env)),
               language |-> IF params.language # "" THEN params.language ELSE "auto",
               style |-> IF params.style # "" THEN params.style ELSE "professional",
               maxTweets |-> IF params.maxTweets = <<>> \/ params.maxTweets[1] = 0
                             THEN Min2(DEFAULT_MAX_TWEETS, MAX_TWEETS_PER_THREAD)
                             ELSE Min2(params.maxTweets[1], MAX_TWEETS_PER_THREAD),
               includeHashtags |-> params.includeHashtags # <<FALSE>>,
               includeImages |-> FALSE]]

\* the pattern of the first test of securityCheck, on a lower-cased input
ScriptInjectionPatterns ==
  { <<"<", "s", "c", "r", "i", "p", "t">>,
    <<"j", "a", "v", "a", "s", "c", "r", "i", "p", "t", ":">>,
    <<"v", "b", "s", "c", "r", "i", "p", "t", ":">>,
    <<"o", "n", "l", "o", "a", "d">>,
    <<"o", "n", "e", "r", "r", "o", "r">>,
    <<"o", "n", "c", "l", "i", "c", "k">> }

\* /<script|javascript:|vbscript:|onload|onerror|onclick/i.test(input)
HasScriptInjection(input) ==
  \E p \in ScriptInjectionPatterns : Includes(ToLowerCase(input), p)

\* the handler of POST /api/generate-thread as a function of the request
\* body, the environment and what geminiService.generateThread resolves to;
\* generateThread is called exactly when the first two checks pass
HandlerResponse(body, env, result) ==
  LET validation == validateParameters(body, env)
  IN  IF "error" \in DOMAIN validation
      THEN [status |-> validation.code, error |-> validation.error]
      ELSE IF Len(validation.sanitized.text) > MaxInputLength(env)
      THEN [status |-> PAYLOAD_TOO_LARGE, error |-> <<"Input text too large">>]
      ELSE IF "error" \in DOMAIN result
      THEN [status |-> INTERNAL_ERROR, error |-> <<"Thread generation failed">>]
      ELSE [status |-> 200, body |-> result]

\* whether the handler reaches the call of geminiService.generateThread
ReachesGeneration(body, env) ==
  LET validation == validateParameters(body, env)
  IN  /\ "error" \notin DOMAIN validation
      /\ Len(validation.sanitized.text) <= MaxInputLength(env)

\* ------------------------------------------------------------------------
\* POST /api/generate-thread
\* ------------------------------------------------------------------------

MaxPieces == 3
SmallInputLength == 9

\* the pieces request texts are made of
TextPieces ==
  { <<"h", "i">>, <<SP>>, <<"U+0007">>, <<"<", "b", ">">>,
    <<"<", "s", "c", "r", "i", "p", "t", ">">>,
    <<"<", "/", "s", "c", "r", "i", "p", "t", ">">>,
    <<"&", "l", "t", ";">> }

RECURSIVE PieceLists(_)
PieceLists(n) ==
  IF n = 0 THEN {<<>>}
  ELSE {Append(ps, p) : ps \in PieceLists(n - 1), p \in TextPieces}

\* a request arrives: any body whose text is absent or made of at most
\* MaxPieces pieces, under a MAX_INPUT_LENGTH setting that is absent or small
ServerInit ==
  /\ call \in [fn : {"POST /api/generate-thread"},
               body : [text : {<<>>} \cup
                              {<<Join(ps, <<>>)>> :
                                 ps \in UNION {PieceLists(n) : n \in 0..MaxPieces}},
                       language : {""},
                       style : {""},
                       maxTweets : {<<>>, <<0>>, <<1>>, <<21>>},
                       includeHashtags : {<<>>}],
               env : [MAX_INPUT_LENGTH : {0, SmallInputLength}]]
  /\ ret = NoRet
  /\ pc = "received"
  /\ tweets = <<>>
  /\ service = NoService
  /\ request = NoRequest

\* the handler runs to its response. generateThread resolves to the valid
\* remote thread or to what useFallback returns for the sanitized
\* parameters; request records the arguments of the call of generateThread.
PostGenerateThread ==
  /\ call.fn = "POST /api/generate-thread"
  /\ pc = "received"
  /\ LET validation == validateParameters(call.body, call.env)
     IN  IF ReachesGeneration(call.body, call.env)
         THEN /\ request' = [generateThread |-> <<validation.sanitized>>]
              /\ \E remote \in BOOLEAN, prefixPick \in 0..2, ctaPick \in 0..2 :
                   ret' = Returned(HandlerResponse(call.body, call.env,
                            IF remote THEN parseGeminiResponse("valid").data
                            ELSE useFallback(validation.sanitized.text,
                                             validation.sanitized,
                                             prefixPick, ctaPick)))
         ELSE /\ request' = [generateThread |-> <<>>]
              /\ ret' = Returned(HandlerResponse(call.body, call.env, FallbackError))
  /\ pc' = "responded"
  /\ UNCHANGED <<call, tweets, service>>

SpecServer == ServerInit /\ [][PostGenerateThread]_vars

\* the handler has answered the request
Responded == call.fn = "POST /api/generate-thread" /\ pc = "responded"

\* C17: whenever validateParameters accepts a request, the sanitized text
\* handed to generateThread is non-empty and no longer than the maximum
\* input length, so that a text that sanitisation empties never reaches
\* segmentation
C17_GeneratedTextNonEmptyAndCapped ==
  Responded =>
     \A k \in 1..Len(request.generateThread) :
        /\ Len(request.generateThread[k].text) > 0
        /\ Len(request.generateThread[k].text) <= MaxInputLength(call.env)

\* C18: a request whose text contains a script-injection pattern is answered
\* with status 400 and generateThread is not called for it
C18_ScriptInjectionRejected ==
  (/\ Responded
   /\ call.body.text # <<>>
   /\ HasScriptInjection(call.body.text[1]))
     => /\ ret.value.status = VALIDATION_ERROR
        /\ request.generateThread = <<>>

\* ------------------------------------------------------------------------
\* concurrent generateThread requests and the quota counter
\* ------------------------------------------------------------------------
MaxRequests == 2

\* a variant of QuotaExhausted that lets one call more through
QuotaExhaustedLate(svc) == svc.quotaUsed > svc.quotaLimit

\* callGeminiWithRetry, line 148: quotaUsed >= quotaLimit
QuotaExhausted(svc) == svc.quotaUsed >= svc.quotaLimit

\* request[r] is the local state of request r: its position, the number of
\* its attempt, the remote calls it has started and where its result came
\* from (the value returned is the one of SpecGemini; only its origin is
\* kept here). The requests share the module-level state service; each
\* action is a part of one run of the event loop between two awaits (the
\* status check and the first attempt, which the code runs without an await
\* between them, are two actions here, so that the interleavings of the code
\* are among those of SpecConcurrent).
ConcurrentInit ==
  /\ call = [fn |-> "generateThread (concurrent)"]
  /\ ret = NoRet
  /\ pc = "serving"
  /\ tweets = <<>>
  /\ service \in {svc \in [enabled : BOOLEAN, configured : BOOLEAN, initialized : BOOLEAN,
                           quotaUsed : {0}, quotaLimit : 0..QuotaLimit] :
                    svc.initialized => (svc.enabled /\ svc.configured)}
  /\ request = [r \in 1..MaxRequests |->
                  [pc |-> "start", attempt |-> 0, calls |-> 0, delayMs |-> 0,
                   result |-> "none"]]

\* generateThread, lines 103-111, for request r
CheckStatusOf(r) ==
  /\ request[r].pc = "start"
  /\ request' = [request EXCEPT
                   ![r] = IF getServiceStatus(service).available
                          THEN [@ EXCEPT !.pc = "attempt", !.attempt = 1]
                          ELSE [@ EXCEPT !.pc = "fallback"]]
  /\ UNCHANGED service

\* callGeminiWithRetry, lines 148-163, for request r: the quota check, the
\* increment and the start of the remote call run without an await between
\* them
StartAttemptOf(r) ==
  /\ request[r].pc = "attempt"
  /\ IF QuotaExhausted(service)
     THEN /\ request' = [request EXCEPT ![r].pc = "fallback"]
          /\ UNCHANGED service
     ELSE /\ service' = [service EXCEPT !.quotaUsed = @ + 1]
          /\ request' = [request EXCEPT ![r].pc = "awaiting", ![r].calls = @ + 1]

\* callGeminiWithRetry, lines 163-194, for request r
RemoteSettlesOf(r) ==
  /\ request[r].pc = "awaiting"
  /\ \E outcome \in RemoteOutcomes :
       request' = [request EXCEPT
                     ![r] = IF outcome = "valid"
                            THEN [@ EXCEPT !.pc = "done", !.result = "remote"]
                            ELSE IF request[r].attempt < maxRetries
                            THEN [@ EXCEPT !.pc = "delay",
                                           !.delayMs = RetryDelay(request[r].attempt)]
                            ELSE [@ EXCEPT !.pc = "fallback"]]
  /\ UNCHANGED service

\* the timer of delay() fires for request r
DelayElapsesOf(r) ==
  /\ request[r].pc = "delay"
  /\ request' = [request EXCEPT ![r].pc = "attempt", ![r].attempt = @ + 1,
                                ![r].delayMs = 0]
  /\ UNCHANGED service

\* useFallback returns for request r
UseFallbackOf(r) ==
  /\ request[r].pc = "fallback"
  /\ request' = [request EXCEPT ![r].pc = "done", ![r].result = "fallback"]
  /\ UNCHANGED service

\* resetQuota, called between any two steps
ResetQuotaConcurrent ==
  /\ service' = [service EXCEPT !.quotaUsed = 0]
  /\ UNCHANGED request

ConcurrentNext ==
  /\ call.fn = "generateThread (concurrent)"
  /\ \/ \E r \in 1..MaxRequests : CheckStatusOf(r)
     \/ \E r \in 1..MaxRequests : StartAttemptOf(r)
     \/ \E r \in 1..MaxRequests : RemoteSettlesOf(r)
     \/ \E r \in 1..MaxRequests : DelayElapsesOf(r)
     \/ \E r \in 1..MaxRequests : UseFallbackOf(r)
     \/ ResetQuotaConcurrent
  /\ UNCHANGED <<call, ret, pc, tweets>>

SpecConcurrent == ConcurrentInit /\ [][ConcurrentNext]_vars

\* the requests that start a remote call in the step
StartingCalls ==
  {r \in 1..MaxRequests : request[r].pc # "awaiting" /\ request'[r].pc = "awaiting"}

\* C21: under every interleaving of concurrent requests and resetQuota
\* calls quotaUsed never exceeds quotaLimit, it is incremented exactly once
\* per remote call started, and no remote call is started while
\* quotaUsed >= quotaLimit.
C21_QuotaCounter ==
  /\ [](call.fn = "generateThread (concurrent)" =>
          service.quotaUsed <= service.quotaLimit)
  /\ [][call.fn = "generateThread (concurrent)" =>
          /\ StartingCalls # {} =>
                /\ Cardinality(StartingCalls) = 1
                /\ service.quotaUsed < service.quotaLimit
                /\ service'.quotaUsed = service.quotaUsed + 1
          /\ StartingCalls = {} => service'.quotaUsed \in {service.quotaUsed, 0}]_vars

\* the counter has reached the limit while two requests await their remote
\* calls, one of them in a retry
C21_Witness ==
  /\ call.fn = "generateThread (concurrent)"
  /\ service.quotaLimit = 2
  /\ service.quotaUsed = 2
  /\ request[1].pc = "awaiting"
  /\ request[2].pc = "awaiting"
  /\ request[1].attempt = 2

\* ------------------------------------------------------------------------
\* the thread generateThread returns through useFallback
\* ------------------------------------------------------------------------

\* the request was answered by useFallback with a thread
ReturnedFallbackThread ==
  /\ call.fn = "generateThread"
  /\ pc = "done"
  /\ request.reason # "none"
  /\ "thread" \in DOMAIN ret.value

\* C22: for a request with includeHashtags = false that the local fallback
\* serves, every hashtag of a returned message occurs literally (in any
\* case) in the text of a message of the thread: no dictionary hashtag is
\* attached.
C22_NoDictionaryHashtagsWhenDisabled ==
  (ReturnedFallbackThread /\ ~call.includeHashtags) =>
     \A k \in 1..Len(ret.value.thread) :
        \A h \in 1..Len(ret.value.thread[k].hashtags) :
           \E j \in 1..Len(ret.value.thread) :
              Includes(ToLowerCase(ret.value.thread[j].text),
                       ToLowerCase(ret.value.thread[k].hashtags[h]))

\* useFallback as a called function, on the texts of Init: what
\* generateThread returns when it takes the fallback path
UseFallbackInit ==
  /\ call \in [fn : {"useFallback"}, text : Texts, style : Styles,
               maxTweets : 1..MaxTweets, includeHashtags : BOOLEAN,
               language : {"auto"}]
  /\ ret = NoRet
  /\ pc = "call"
  /\ tweets = <<>>
  /\ service = NoService
  /\ request = NoRequest

UseFallbackCall ==
  /\ call.fn = "useFallback"
  /\ pc = "call"
  /\ \E prefixPick \in 0..2, ctaPick \in 0..2 :
       ret' = Returned(useFallback(call.text, call, prefixPick, ctaPick))
  /\ pc' = "done"
  /\ UNCHANGED <<call, tweets, service, request>>

SpecUseFallback == UseFallbackInit /\ [][UseFallbackCall]_vars

\* C23: in a thread generateThread returns through the fallback path every
\* message satisfies getCharCount(text, hashtags, cta) <= 280: nothing is
\* assigned to a message after the validation pass.
C23_FallbackThreadWithinLimit ==
  (call.fn = "useFallback" /\ pc = "done" /\ "thread" \in DOMAIN ret.value) =>
     \A k \in 1..Len(ret.value.thread) :
        getCharCount(ret.value.thread[k].text, ret.value.thread[k].hashtags,
                     ret.value.thread[k].cta) <= TWEET_CHAR_LIMIT

\* the numbering "(i/n)" generateTweetText writes
ThreadNumber(i, n) ==
  <<"(">> \o NumberToString(i) \o <<"/">> \o NumberToString(n) \o <<")">>

\* String.prototype.endsWith
EndsWith(s, suffix) == MatchesAt(s, suffix, Len(s) - Len(suffix) + 1)

\* C24: in every thread of N > 1 messages generateFallbackThread returns,
\* the text of the message with index i ends with the numbering "(i/N)",
\* N being the number of messages returned.
C24_NumberingMatchesThread ==
  (ReturnedThread /\ Len(ret.value.thread) > 1) =>
     \A k \in 1..Len(ret.value.thread) :
        EndsWith(ret.value.thread[k].text,
                 ThreadNumber(ret.value.thread[k].index, Len(ret.value.thread)))

\* ------------------------------------------------------------------------
\* the strategies of segmentText
\* ------------------------------------------------------------------------

\* the paragraphs and the sentences segmentText finds in a text
ParagraphsOf(text) == FilterNonBlank(Split(text, "paragraphs"))
SentencesOf(text) == FilterNonBlank(Split(text, "sentences"))

\* segmentText takes the sentence strategy for the call
SentenceStrategy ==
  /\ call.fn = "segmentText"
  /\ Len(call.text) > 0
  /\ Len(ParagraphsOf(call.text)) < call.targetCount
  /\ Len(SentencesOf(call.text)) >= call.targetCount

\* segments are groups of at most size consecutive sentences, in order: ends
\* gives the position of the last sentence of every group
GroupsOfConsecutive(segments, sentences, size) ==
  \E ends \in [1..Len(segments) -> 1..Len(sentences)] :
     \A g \in 1..Len(segments) :
        LET first == IF g = 1 THEN 1 ELSE ends[g - 1] + 1
        IN  /\ first <= ends[g]
            /\ ends[g] - first + 1 <= size
            /\ segments[g] = Trim(Join(SubSeq(sentences, first, ends[g]), <<DOT, SP>>))

\* C25: with fewer than targetCount paragraphs and c >= targetCount
\* sentences, segmentText returns exactly targetCount segments, each of at
\* most ceil(c / targetCount) consecutive sentences in original order.
C25_SentenceStrategyExactCount ==
  (SentenceStrategy /\ ret.returned) =>
     /\ Len(ret.value) = call.targetCount
     /\ GroupsOfConsecutive(ret.value, SentencesOf(call.text),
                            CeilDiv(Len(SentencesOf(call.text)), call.targetCount))

\* segmentText takes the fixed-width strategy for the call
FixedWidthStrategy ==
  /\ call.fn = "segmentText"
  /\ Len(call.text) > 0
  /\ call.targetCount >= 1
  /\ Len(ParagraphsOf(call.text)) < call.targetCount
  /\ Len(SentencesOf(call.text)) < call.targetCount

\* the characters of a string that are not whitespace
NonWhitespace(s) == SelectSeq(s, LAMBDA c : ~IsSpace(c))

\* C26: in the fixed-width strategy the concatenation of the returned
\* segments holds every non-whitespace character of the input: what lies
\* between the space a boundary is moved back to and the natural break is
\* carried into the next chunk.
C26_FixedWidthLosesNoText ==
  (FixedWidthStrategy /\ ret.returned) =>
     NonWhitespace(FlattenSeq(ret.value)) = NonWhitespace(call.text)

\* ------------------------------------------------------------------------
\* combineSmallSegments as a called function
\* ------------------------------------------------------------------------
MaxParagraphs == 4

\* the paragraphs of a text: short and long ones, which may repeat
Paragraphs == { <<"a">>, <<"b", "b">>, Repeat("c", 6) }

RECURSIVE ParagraphLists(_)
ParagraphLists(n) ==
  IF n = 0 THEN {<<>>}
  ELSE {Append(ps, p) : ps \in ParagraphLists(n - 1), p \in Paragraphs}

CombineInit ==
  /\ call \in [fn : {"combineSmallSegments"},
               segments : UNION {ParagraphLists(n) : n \in 1..MaxParagraphs},
               targetCount : 1..MaxSegments]
  /\ ret = NoRet
  /\ pc = "call"
  /\ tweets = <<>>
  /\ service = NoService
  /\ request = NoRequest

CombineSmallSegmentsCall ==
  /\ call.fn = "combineSmallSegments"
  /\ pc = "call"
  /\ ret' = Returned(combineSmallSegments(call.segments, call.targetCount))
  /\ pc' = "done"
  /\ UNCHANGED <<call, tweets, service, request>>

SpecCombine == CombineInit /\ [][CombineSmallSegmentsCall]_vars

\* C27: the chunks combineSmallSegments returns hold the paragraphs of the
\* input, each once and in order, also after the final chunk took the
\* paragraphs that remained and also when paragraphs have the same text;
\* there are at most targetCount chunks.
C27_CombinedChunksCoverParagraphs ==
  (call.fn = "combineSmallSegments" /\ pc = "done") =>
     /\ Join(ret.value, <<SP>>) = Join(call.segments, <<SP>>)
     /\ Len(ret.value) <= Max2(call.targetCount, Len(call.segments))
     /\ Len(call.segments) > call.targetCount => Len(ret.value) <= call.targetCount

\* ------------------------------------------------------------------------
\* generateEmojis as a called function
\* ------------------------------------------------------------------------

\* the segments of a message: without a keyword, with one, with all four
EmojiSegments ==
  { <<"h", "i">>,
    <<"M", "o", "n", "e", "y">>,
    <<"t", "i", "m", "e", SP, "i", "s", SP, "m", "o", "n", "e", "y">>,
    <<"i", "m", "p", "o", "r", "t", "a", "n", "t", SP, "s", "u", "c", "c", "e", "s", "s",
      SP, "m", "o", "n", "e", "y", SP, "t", "i", "m", "e">>,
    <<>> }

AllStyles == {"educational", "technical", "concise", "engaging", "professional"}

EmojisInit ==
  /\ call \in [fn : {"generateEmojis"}, segment : EmojiSegments, style : AllStyles,
               index : 0..MaxThread]
  /\ ret = NoRet
  /\ pc = "call"
  /\ tweets = <<>>
  /\ service = NoService
  /\ request = NoRequest

GenerateEmojisCall ==
  /\ call.fn = "generateEmojis"
  /\ pc = "call"
  /\ ret' = Returned(generateEmojis(call.segment, call.style, call.index))
  /\ pc' = "done"
  /\ UNCHANGED <<call, tweets, service, request>>

SpecEmojis == EmojisInit /\ [][GenerateEmojisCall]_vars

\* C29: the emoji suggestions of the first message begin with a
\* thread-start indicator, which is put in front before the cap of 3 is
\* applied; the suggestions of no other message hold one.
C29_ThreadStartEmojiFirst ==
  (call.fn = "generateEmojis" /\ pc = "done") =>
     IF call.index = 0
     THEN /\ Len(ret.value) > 0
          /\ Contains(ThreadStartEmojis, ret.value[1])
     ELSE \A i \in 1..Len(ret.value) : ~Contains(ThreadStartEmojis, ret.value[i])

\* ------------------------------------------------------------------------
\* the loops of the local pipeline, one iteration at a time
\* ------------------------------------------------------------------------
\* call is the function whose loop runs, tweets the array the loop builds
\* (result, segments, combined, hashtags), request the loop variables and the
\* number of iterations begun; pc is "entry" before the loop, "test" where
\* its condition is evaluated, "body" where its body runs, and "done".

\* a variant of NextOffset that does not advance
NextOffsetStuck(i, step) == i

\* i += sentencesPerTweet, i += avgLength
NextOffset(i, step) == i + step

\* the messages ensureExactTweetCount is given
SplitTexts ==
  { ShortBlock, Repeat("y", 100), LongWord \o <<SP>> \o LongWord,
    Repeat("x", 120) \o <<SP, "z">>, Join([i \in 1..5 |-> LongWord], <<SP>>) }

SplitThreads ==
  UNION {[1..n -> [text : SplitTexts, hashtags : {<<>>}, emoji_suggestions : {<<>>}]] :
           n \in 0..(MaxThread - 1)}

LoopCalls ==
  [fn : {"ensureExactTweetCount"}, tweets : SplitThreads, targetCount : 1..MaxTweets]
    \cup [fn : {"segmentText"}, text : SegTexts, targetCount : 1..MaxSegments]
    \cup [fn : {"combineSmallSegments"},
          segments : UNION {ParagraphLists(n) : n \in 1..MaxParagraphs},
          targetCount : 1..MaxSegments]
    \cup [fn : {"generateTweetHashtags"}, text : HashtagTexts,
          options : {o \in HashtagOptions : o.englishRatioNum = 7},
          usedHashtags : {{}, {THREAD_HASHTAGS.english[1]}}]

\* the hashtags of generateTweetHashtags before its while-loop, lines 154-198
HashtagsBeforeFill(text, options, usedHashtags) ==
  LET isArabicContent == ArabicPercentAbove(detectLanguagePercentages(text), 30)
      topics == detectTopics(text)
      englishCount == CeilDiv(options.maxHashtags * options.englishRatioNum,
                              options.englishRatioDen)
      arabicCount == options.maxHashtags - englishCount
      availableEnglish ==
        Take(SelectSeq(Unique(TopicHashtags(topics, "english")),
                       LAMBDA tag : tag \notin usedHashtags), englishCount)
      availableArabic ==
        IF (isArabicContent \/ options.forceArabic) /\ arabicCount > 0
        THEN Take(SelectSeq(Unique(TopicHashtags(topics, "arabic")),
                            LAMBDA tag : tag \notin usedHashtags), arabicCount)
        ELSE <<>>
      threadHashtag == IF isArabicContent THEN THREAD_HASHTAGS.arabic[1]
                       ELSE THREAD_HASHTAGS.english[1]
  IN  IF options.includeThreadHashtag /\ threadHashtag \notin usedHashtags
      THEN <<threadHashtag>> \o availableEnglish \o availableArabic
      ELSE availableEnglish \o availableArabic

\* the array a loop starts with: ensureExactTweetCount copies its argument,
\* generateTweetHashtags has the topic hashtags, the others start empty
LoopStart(c) ==
  IF c.fn = "ensureExactTweetCount" THEN c.tweets
  ELSE IF c.fn = "generateTweetHashtags"
  THEN HashtagsBeforeFill(c.text, c.options, c.usedHashtags)
  ELSE <<>>

LoopsInit ==
  /\ call \in LoopCalls
  /\ ret = NoRet
  /\ pc = "entry"
  /\ tweets = LoopStart(call)
  /\ service = NoService
  /\ request = [iterations |-> 0, i |-> 0, current |-> <<>>]

\* the paragraphs combineSmallSegments is given, by its caller or by
\* segmentText (line 127)
LoopSegments ==
  IF call.fn = "combineSmallSegments" THEN call.segments
  ELSE Take(ParagraphsOf(call.text), call.targetCount * 2)

\* combineSmallSegments runs for the call
CombineStrategy ==
  \/ call.fn = "combineSmallSegments"
  \/ /\ call.fn = "segmentText"
     /\ Len(call.text) > 0
     /\ Len(ParagraphsOf(call.text)) >= call.targetCount

\* the function returns value
Leave(value) ==
  /\ pc' = "done"
  /\ ret' = Returned(value)

\* ensureExactTweetCount, lines 563-575: the loop is not entered
NoSplitNeeded ==
  /\ call.fn = "ensureExactTweetCount"
  /\ pc = "entry"
  /\ Len(call.tweets) >= call.targetCount
  /\ Leave(ensureExactTweetCount(call.tweets, call.targetCount).value)
  /\ UNCHANGED <<call, tweets, service, request>>

\* segmentText, lines 118-120: no loop runs for an empty text
NothingToSegment ==
  /\ call.fn = "segmentText"
  /\ pc = "entry"
  /\ Len(call.text) = 0 \/ call.targetCount < 1
  /\ Leave(<<>>)
  /\ UNCHANGED <<call, tweets, service, request>>

\* combineSmallSegments, lines 173-175: the loop is not entered
NoCombineNeeded ==
  /\ CombineStrategy
  /\ pc = "entry"
  /\ Len(LoopSegments) <= call.targetCount
  /\ Leave(LoopSegments)
  /\ UNCHANGED <<call, tweets, service, request>>

\* the function comes to its loop
EnterLoop ==
  /\ pc = "entry"
  /\ call.fn = "ensureExactTweetCount" => Len(call.tweets) < call.targetCount
  /\ call.fn = "segmentText" => (Len(call.text) > 0 /\ call.targetCount >= 1)
  /\ CombineStrategy => Len(LoopSegments) > call.targetCount
  /\ pc' = "test"
  /\ UNCHANGED <<call, ret, tweets, service, request>>

\* the condition of the loop of the call: result.length < targetCount,
\* i < sentences.length, i < text.length, a segment is left,
\* hashtags.length < maxHashtags
LoopCondition ==
  IF call.fn = "ensureExactTweetCount" THEN Len(tweets) < call.targetCount
  ELSE IF call.fn = "generateTweetHashtags" THEN Len(tweets) < call.options.maxHashtags
  ELSE IF CombineStrategy THEN request.i < Len(LoopSegments)
  ELSE IF SentenceStrategy THEN request.i < Len(SentencesOf(call.text))
  ELSE request.i < Len(call.text)

\* what the function returns when the condition of its loop fails
LoopResult ==
  IF call.fn = "ensureExactTweetCount" THEN Reindex(Take(tweets, call.targetCount))
  ELSE IF call.fn = "generateTweetHashtags" THEN Take(tweets, call.options.maxHashtags)
  ELSE IF CombineStrategy
  THEN IF Len(request.current) > 0 THEN Append(tweets, request.current) ELSE tweets
  ELSE IF SentenceStrategy THEN Take(tweets, call.targetCount)
  ELSE SelectSeq(tweets, LAMBDA s : Len(s) > 0)

\* the condition of the loop is evaluated: the body runs, or the loop ends
\* and the function returns
TestLoop ==
  /\ pc = "test"
  /\ IF LoopCondition
     THEN pc' = "body" /\ UNCHANGED ret
     ELSE Leave(LoopResult)
  /\ UNCHANGED <<call, tweets, service, request>>

\* the body has run, the array is array now, and the condition is next
Iterate(array, i, current) ==
  /\ tweets' = array
  /\ request' = [iterations |-> request.iterations + 1, i |-> i, current |-> current]
  /\ pc' = "test"
  /\ UNCHANGED <<call, ret, service>>

\* the body has run and has left the loop with break, return or an exception
IterateAndLeave(array, value) ==
  /\ tweets' = array
  /\ request' = [request EXCEPT !.iterations = @ + 1]
  /\ Leave(value)
  /\ UNCHANGED <<call, service>>

\* ensureExactTweetCount, lines 579-604: the body of the while-loop
SplitLoopBody ==
  /\ call.fn = "ensureExactTweetCount"
  /\ pc = "body"
  /\ IF Len(tweets) = 0
     THEN IterateAndLeave(tweets, "TypeError")
     ELSE LET longestIndex == LongestIndex(tweets)
              longestTweet == tweets[longestIndex]
              splitPoint == SplitPoint(longestTweet.text)
              firstPart == Trim(Substring(longestTweet.text, 0, splitPoint))
              secondPart == Trim(Substring(longestTweet.text, splitPoint,
                                           Len(longestTweet.text)))
          IN  IF Len(longestTweet.text) >= MinSplitLength /\ splitPoint > 0
              THEN Iterate(SubSeq(tweets, 1, longestIndex - 1)
                             \o << [longestTweet EXCEPT !.text = firstPart],
                                   [longestTweet EXCEPT !.text = secondPart,
                                                        !.hashtags = <<>>,
                                                        !.emoji_suggestions = <<>>] >>
                             \o SubSeq(tweets, longestIndex + 1, Len(tweets)),
                           0, <<>>)
              ELSE IterateAndLeave(tweets, Reindex(Take(tweets, call.targetCount)))

\* segmentText, lines 137-140: the body of the for-loop over the sentences
SentenceLoopBody ==
  /\ SentenceStrategy
  /\ pc = "body"
  /\ LET sentences == SentencesOf(call.text)
         sentencesPerTweet == CeilDiv(Len(sentences), call.targetCount)
         segment == Trim(Join(SubSeq(sentences, request.i + 1,
                                     Min2(request.i + sentencesPerTweet, Len(sentences))),
                              <<DOT, SP>>))
     IN  Iterate(IF Len(segment) > 0 THEN Append(tweets, segment) ELSE tweets,
                 NextOffset(request.i, sentencesPerTweet), <<>>)

\* segmentText, lines 149-161: the body of the for-loop over the text
LengthLoopBody ==
  /\ FixedWidthStrategy
  /\ pc = "body"
  /\ LET avgLength == CeilDiv(Len(call.text), call.targetCount)
         segment == Substring(call.text, request.i, request.i + avgLength)
         lastSpace == LastIndexOfSpace(segment, Len(segment) - 1)
         cut == IF request.i + avgLength < Len(call.text) /\ 2 * lastSpace > Len(segment)
                THEN Substring(segment, 0, lastSpace)
                ELSE segment
     IN  Iterate(Append(tweets, Trim(cut)), NextOffset(request.i, avgLength), <<>>)

\* combineSmallSegments, lines 181-199: the body of the for-loop over the
\* segments; request.i is the number of segments taken
CombineLoopBody ==
  /\ CombineStrategy
  /\ pc = "body"
  /\ LET segments == LoopSegments
         current == request.current
         segment == segments[request.i + 1]
         remaining == SubSeq(segments, IndexOf(segments, segment) + 1, Len(segments))
         last == IF Len(remaining) > 0
                 THEN segment \o <<SP>> \o Join(remaining, <<SP>>)
                 ELSE segment
         pushed == Append(tweets, current)
     IN  IF Len(current) = 0
         THEN Iterate(tweets, request.i + 1, segment)
         ELSE IF 2 * call.targetCount * (Len(current) + Len(segment) + 1)
                   < 3 * SumLength(segments)
         THEN Iterate(tweets, request.i + 1, current \o <<SP>> \o segment)
         ELSE IF Len(pushed) >= call.targetCount - 1
         THEN IterateAndLeave(pushed, IF Len(last) > 0 THEN Append(pushed, last)
                                      ELSE pushed)
         ELSE Iterate(pushed, request.i + 1, segment)

\* generateTweetHashtags, lines 201-212: the body of the while-loop that
\* fills the slots from the general pool
FillLoopBody ==
  /\ call.fn = "generateTweetHashtags"
  /\ pc = "body"
  /\ LET isArabicContent ==
           ArabicPercentAbove(detectLanguagePercentages(call.text), 30)
         generalHashtags == IF isArabicContent THEN HASHTAG_DICTIONARY.general.arabic
                            ELSE HASHTAG_DICTIONARY.general.english
         available == SelectSeq(generalHashtags,
                        LAMBDA tag : ~Contains(tweets, tag) /\ tag \notin call.usedHashtags)
     IN  IF Len(available) = 0
         THEN IterateAndLeave(tweets, Take(tweets, call.options.maxHashtags))
         ELSE Iterate(Append(tweets, available[1]), 0, <<>>)

LoopsNext ==
  \/ NoSplitNeeded
  \/ NothingToSegment
  \/ NoCombineNeeded
  \/ EnterLoop
  \/ TestLoop
  \/ SplitLoopBody
  \/ SentenceLoopBody
  \/ LengthLoopBody
  \/ CombineLoopBody
  \/ FillLoopBody

SpecLoops == LoopsInit /\ [][LoopsNext]_vars

\* the steps that leave the positions "entry", "test" and "body": of the
\* steps of LoopsNext they are the ones enabled there, and one of them is
\* enabled at each of these positions
LeaveEntry == pc = "entry" /\ pc' \in {"test", "done"}
LeaveTest == pc = "test" /\ pc' \in {"body", "done"}
LeaveBody == pc = "body" /\ pc' \in {"test", "done"}

\* the code runs on: an entry, a test or a body that can be run is run
FairSpecLoops ==
  /\ SpecLoops
  /\ WF_pc(LeaveEntry)
  /\ WF_pc(LeaveTest)
  /\ WF_pc(LeaveBody)

\* what the function of the call returns, as the operators above compute it
LoopFunctionValue ==
  IF call.fn = "ensureExactTweetCount"
  THEN LET r == ensureExactTweetCount(call.tweets, call.targetCount)
       IN  IF r.threw THEN "TypeError" ELSE r.value
  ELSE IF call.fn = "segmentText" THEN segmentText(call.text, call.targetCount)
  ELSE IF call.fn = "combineSmallSegments"
  THEN combineSmallSegments(call.segments, call.targetCount)
  ELSE generateTweetHashtags(call.text, call.options, call.usedHashtags).hashtags

\* the number of iterations the loop of the call may begin
IterationBound ==
  IF call.fn = "ensureExactTweetCount"
  THEN Max2(call.targetCount - Len(call.tweets), 0)
  ELSE IF call.fn = "generateTweetHashtags" THEN call.options.maxHashtags
  ELSE IF CombineStrategy THEN Len(LoopSegments)
  ELSE Len(call.text)

\* C30: every loop of the local pipeline terminates, and the iterations it
\* begins are bounded: targetCount minus the initial number of messages for
\* the split loop of ensureExactTweetCount, the input length for the loops of
\* segmentText, the number of paragraphs for combineSmallSegments and
\* maxHashtags for the backfill loop of generateTweetHashtags.
C30_LoopsTerminateWithinBounds ==
  /\ <>(pc = "done")
  /\ [](request.iterations <= IterationBound)

\* the split loop has added two messages to one and has ended at targetCount
C30_Witness ==
  /\ call.fn = "ensureExactTweetCount"
  /\ pc = "done"
  /\ Len(call.tweets) = 1
  /\ call.targetCount = 3
  /\ request.iterations = 2
  /\ Len(ret.value) = 3

====
